---- MODULE Spec2Model ----
(***************************************************************************)
(* Model of the pattern-scan-and-score scripts of cline-sdlc:               *)
(*   scripts/ai-code-review.js      (AICodeReviewer)                        *)
(*   scripts/code-style-review.js   (CodeStyleReviewer)                     *)
(*   performance analysis script    (PerformanceAnalyzer)                   *)
(*   merge readiness script         (MergeReadinessAssessor)                *)
(* File texts are sequences of one-character strings; the regular           *)
(* expressions of the rule tables are matched by a backtracking matcher     *)
(* with JavaScript's leftmost, greedy semantics.                            *)
(***************************************************************************)
EXTENDS Integers, Sequences, FiniteSets, TLC

(* ---------------------------------------------------------------------- *)
(* Bounds of the model                                                      *)
(* ---------------------------------------------------------------------- *)
MaxFiles == 2
MaxUpstream == 1

(* ---------------------------------------------------------------------- *)
(* Character classes of the regular expressions                             *)
(* ---------------------------------------------------------------------- *)
Lower == {"a", "b", "c", "d", "e", "f", "g", "h", "i", "j", "k", "l", "m",
          "n", "o", "p", "q", "r", "s", "t", "u", "v", "w", "x", "y", "z"}
Upper == {"A", "B", "C", "D", "E", "F", "G", "H", "I", "J", "K", "L", "M",
          "N", "O", "P", "Q", "R", "S", "T", "U", "V", "W", "X", "Y", "Z"}
Digit == {"0", "1", "2", "3", "4", "5", "6", "7", "8", "9"}
\* \s, \w, \d and . of a JavaScript regular expression
WS == {" ", "\t", "\n", "\r"}
WordCh == Lower \cup Upper \cup Digit \cup {"_"}
LineEnd == {"\n", "\r"}

InClass(cls, ch) == (ch \in cls.set) # cls.neg

\* one pattern element: a character class with a repetition, or an anchor
One(S) == [k |-> "cls", c |-> [neg |-> FALSE, set |-> S], lo |-> 1, many |-> FALSE]
Not1(S) == [k |-> "cls", c |-> [neg |-> TRUE, set |-> S], lo |-> 1, many |-> FALSE]
Star(S) == [k |-> "cls", c |-> [neg |-> FALSE, set |-> S], lo |-> 0, many |-> TRUE]
Plus(S) == [k |-> "cls", c |-> [neg |-> FALSE, set |-> S], lo |-> 1, many |-> TRUE]
NotStar(S) == [k |-> "cls", c |-> [neg |-> TRUE, set |-> S], lo |-> 0, many |-> TRUE]
NotPlus(S) == [k |-> "cls", c |-> [neg |-> TRUE, set |-> S], lo |-> 1, many |-> TRUE]
\* [^...]*? : the lazy repetition, shortest first
NotStarLazy(S) == [k |-> "lazy", c |-> [neg |-> TRUE, set |-> S], lo |-> 0, many |-> TRUE]
Bol == [k |-> "bol"]
\* ^ and $ without the m flag: the two ends of the text
Sos == [k |-> "sos"]
Eos == [k |-> "eos"]
WordB == [k |-> "wb"]
\* a run of literal characters, matched as one element
Lit(s) == <<[k |-> "lit", s |-> s]>>

NoMatch == 0 - 1

\* number of leading characters of text, from pos on, that lie in cls
RECURSIVE RunLen(_, _, _)
RunLen(cls, text, pos) ==
  IF pos <= Len(text) /\ InClass(cls, text[pos])
  THEN 1 + RunLen(cls, text, pos + 1)
  ELSE 0

IsWordAt(text, pos) == pos >= 1 /\ pos <= Len(text) /\ text[pos] \in WordCh

\* RegExp matching of one alternative at a fixed start: the position after
\* the match, or NoMatch.  Repetitions are greedy and give characters back.
RECURSIVE MatchItems(_, _, _, _)
RECURSIVE TryCounts(_, _, _, _, _, _)
RECURSIVE TryLazy(_, _, _, _, _, _)
MatchItems(alt, i, text, pos) ==
  IF i > Len(alt) THEN pos
  ELSE LET it == alt[i] IN
    CASE it.k = "bol" ->
           IF pos = 1 \/ text[pos - 1] \in LineEnd
           THEN MatchItems(alt, i + 1, text, pos) ELSE NoMatch
      [] it.k = "sos" ->
           IF pos = 1 THEN MatchItems(alt, i + 1, text, pos) ELSE NoMatch
      [] it.k = "eos" ->
           IF pos = Len(text) + 1 THEN MatchItems(alt, i + 1, text, pos) ELSE NoMatch
      [] it.k = "wb" ->
           IF IsWordAt(text, pos - 1) # IsWordAt(text, pos)
           THEN MatchItems(alt, i + 1, text, pos) ELSE NoMatch
      [] it.k = "lit" ->
           IF pos + Len(it.s) - 1 <= Len(text)
              /\ SubSeq(text, pos, pos + Len(it.s) - 1) = it.s
           THEN MatchItems(alt, i + 1, text, pos + Len(it.s)) ELSE NoMatch
      [] it.k = "lazy" ->
           TryLazy(alt, i, text, pos, it.lo, RunLen(it.c, text, pos))
      [] OTHER ->
           LET run == RunLen(it.c, text, pos)
               hi == IF it.many THEN run ELSE IF run > 0 THEN 1 ELSE 0
           IN TryCounts(alt, i, text, pos, hi, it.lo)
TryCounts(alt, i, text, pos, n, lo) ==
  IF n < lo THEN NoMatch
  ELSE LET r == MatchItems(alt, i + 1, text, pos + n)
       IN IF r # NoMatch THEN r ELSE TryCounts(alt, i, text, pos, n - 1, lo)

TryLazy(alt, i, text, pos, n, hi) ==
  IF n > hi THEN NoMatch
  ELSE LET r == MatchItems(alt, i + 1, text, pos + n)
       IN IF r # NoMatch THEN r ELSE TryLazy(alt, i, text, pos, n + 1, hi)

\* a pattern is a sequence of alternatives, tried in order (a|b)
RECURSIVE MatchAt(_, _, _, _)
MatchAt(pat, a, text, pos) ==
  IF a > Len(pat) THEN NoMatch
  ELSE LET r == MatchItems(pat[a], 1, text, pos)
       IN IF r # NoMatch THEN r ELSE MatchAt(pat, a + 1, text, pos)

SetMin(S) == CHOOSE x \in S : \A y \in S : x <= y
\* the element of a one-element set
TheOne(S) == CHOOSE x \in S : TRUE

\* successive matches of a global RegExp: the spans [s, e) found left to
\* right, each search resuming where the previous match ended (one
\* character further after an empty match)
RECURSIVE MatchSpans(_, _, _)
MatchSpans(pat, text, from) ==
  LET hits == {sp \in {[s |-> p, e |-> MatchAt(pat, 1, text, p)] :
                          p \in from..(Len(text) + 1)} : sp.e # NoMatch}
  IN IF hits = {} THEN <<>>
     ELSE TheOne({<<sp>> \o MatchSpans(pat, text, IF sp.e = sp.s THEN sp.s + 1 ELSE sp.e) :
                    sp \in {h \in hits : \A o \in hits : h.s <= o.s}})
\* String.prototype.match with a g-flagged RegExp: the matched substrings
\* only (the offsets are not part of the result)
match(text, pat) ==
  TheOne({[i \in 1..Len(spans) |-> SubSeq(text, spans[i].s, spans[i].e - 1)] :
            spans \in {MatchSpans(pat, text, 1)}})

\* String.prototype.indexOf, 1-based; Len(text) + 1 when absent
indexOf(text, s) ==
  LET at == {p \in 1..(Len(text) - Len(s) + 1) : SubSeq(text, p, p + Len(s) - 1) = s}
  IN IF at = {} THEN Len(text) + 1 ELSE SetMin(at)
includes(text, s) == indexOf(text, s) <= Len(text)

\* text.split('\n').length
splitLength(text) == Cardinality({i \in 1..Len(text) : text[i] = "\n"}) + 1

\* String.prototype.trim
RECURSIVE trimStart(_)
trimStart(s) == IF s # <<>> /\ Head(s) \in WS THEN trimStart(Tail(s)) ELSE s
RECURSIVE trimEnd(_)
trimEnd(s) ==
  IF s # <<>> /\ s[Len(s)] \in WS THEN trimEnd(SubSeq(s, 1, Len(s) - 1)) ELSE s
trim(s) == trimEnd(trimStart(s))

(* ---------------------------------------------------------------------- *)
(* Rule tables                                                              *)
(* ---------------------------------------------------------------------- *)
Rule(source, pat, severity, message) ==
  [pattern |-> source, re |-> pat, severity |-> severity, message |-> message]

\* AICodeReviewer.patterns, one sequence per category
securityIssues == <<
  Rule("/eval\\s*\\(/", <<Lit(<<"e", "v", "a", "l">>) \o <<Star(WS)>> \o Lit(<<"(">>)>>,
       "high", "Use of eval() detected - potential security risk"),
  Rule("/innerHTML\\s*=/", <<Lit(<<"i", "n", "n", "e", "r", "H", "T", "M", "L">>) \o <<Star(WS)>> \o Lit(<<"=">>)>>,
       "medium", "innerHTML assignment detected - potential XSS vulnerability"),
  Rule("/document\\.write\\s*\\(/",
       <<Lit(<<"d", "o", "c", "u", "m", "e", "n", "t", ".", "w", "r", "i", "t", "e">>) \o <<Star(WS)>> \o Lit(<<"(">>)>>,
       "medium", "document.write() detected - potential security issue"),
  Rule("/Math\\.random\\(\\)/", <<Lit(<<"M", "a", "t", "h", ".", "r", "a", "n", "d", "o", "m", "(", ")">>)>>,
       "low", "Math.random() detected - not cryptographically secure") >>
performanceIssues == <<
  Rule("/for\\s*\\(\\s*.*\\s*in\\s*.*\\s*\\)/",
       <<Lit(<<"f", "o", "r">>) \o <<Star(WS)>> \o Lit(<<"(">>)
         \o <<Star(WS), NotStar(LineEnd), Star(WS)>> \o Lit(<<"i", "n">>)
         \o <<Star(WS), NotStar(LineEnd), Star(WS)>> \o Lit(<<")">>)>>,
       "medium", "for...in loop detected - consider using for...of or Array methods"),
  Rule("/\\.\\s*getElementById\\s*\\(/",
       <<Lit(<<".">>) \o <<Star(WS)>> \o Lit(<<"g", "e", "t", "E", "l", "e", "m", "e", "n", "t", "B", "y", "I", "d">>)
         \o <<Star(WS)>> \o Lit(<<"(">>)>>,
       "low", "Direct DOM access - consider caching references"),
  Rule("/console\\.log\\s*\\(/",
       <<Lit(<<"c", "o", "n", "s", "o", "l", "e", ".", "l", "o", "g">>) \o <<Star(WS)>> \o Lit(<<"(">>)>>,
       "low", "console.log() detected - remove in production") >>
codeQuality == <<
  Rule("/var\\s+\\w+\\s*=/",
       <<Lit(<<"v", "a", "r">>) \o <<Plus(WS), Plus(WordCh), Star(WS)>> \o Lit(<<"=">>)>>,
       "low", "var keyword detected - consider using let or const"),
  Rule("/==\\s*[^=]/", <<Lit(<<"=", "=">>) \o <<Star(WS), Not1({"="})>> >>,
       "medium", "== operator detected - consider using === for strict equality"),
  Rule("/function\\s*\\(\\s*\\)\\s*{/",
       <<Lit(<<"f", "u", "n", "c", "t", "i", "o", "n">>) \o <<Star(WS)>> \o Lit(<<"(">>) \o <<Star(WS)>>
         \o Lit(<<")">>) \o <<Star(WS)>> \o Lit(<<"{">>)>>,
       "low", "Empty function detected - verify if needed") >>

\* CodeStyleReviewer.stylePatterns, in Object.entries order
StyleRule(source, pat, message, severity, autoFixable) ==
  [pattern |-> source, re |-> pat, message |-> message,
   severity |-> severity, autoFixable |-> autoFixable]
NamingWord(w) ==
  <<WordB>> \o Lit(w) \o <<Plus(WS), One(Lower), One(Upper)>>
stylePatterns == <<
  [category |-> "formatting", patterns |-> <<
    StyleRule("/^\\s*\\t/m", <<<<Bol, Star(WS), One({"\t"})>>>>,
       "Use spaces instead of tabs for indentation", "medium", TRUE),
    StyleRule("/;\\s*\\n\\s*}/m",
       <<Lit(<<";">>) \o <<Star(WS), One({"\n"}), Star(WS)>> \o Lit(<<"}">>)>>,
       "Unnecessary semicolon before closing brace", "low", TRUE),
    StyleRule("/\\s+\\n\\s*\\n\\s*\\n/m",
       <<<<Plus(WS), One({"\n"}), Star(WS), One({"\n"}), Star(WS), One({"\n"})>>>>,
       "Too many consecutive blank lines", "low", TRUE) >>],
  [category |-> "naming", patterns |-> <<
    StyleRule("/\\b(a|an|the|is|has|have)\\s+[a-z][A-Z]/",
       <<NamingWord(<<"a">>), NamingWord(<<"a", "n">>), NamingWord(<<"t", "h", "e">>),
         NamingWord(<<"i", "s">>), NamingWord(<<"h", "a", "s">>), NamingWord(<<"h", "a", "v", "e">>)>>,
       "Variable names should follow camelCase convention", "medium", FALSE),
    StyleRule("/function\\s+[A-Z]/",
       <<Lit(<<"f", "u", "n", "c", "t", "i", "o", "n">>) \o <<Plus(WS), One(Upper)>> >>,
       "Function names should use camelCase, not PascalCase", "medium", FALSE),
    StyleRule("/const\\s+[A-Z]/",
       <<Lit(<<"c", "o", "n", "s", "t">>) \o <<Plus(WS), One(Upper)>> >>,
       "Constants should use UPPER_SNAKE_CASE", "low", FALSE) >>],
  [category |-> "structure", patterns |-> <<
    StyleRule("/if\\s*\\([^)]+\\)\\s*[^{]/",
       <<Lit(<<"i", "f">>) \o <<Star(WS)>> \o Lit(<<"(">>) \o <<NotPlus({")"})>>
         \o Lit(<<")">>) \o <<Star(WS), Not1({"{"})>> >>,
       "Use braces for single-line if statements", "medium", TRUE),
    StyleRule("/for\\s*\\([^)]+\\)\\s*[^{]/",
       <<Lit(<<"f", "o", "r">>) \o <<Star(WS)>> \o Lit(<<"(">>) \o <<NotPlus({")"})>>
         \o Lit(<<")">>) \o <<Star(WS), Not1({"{"})>> >>,
       "Use braces for single-line for loops", "medium", TRUE),
    StyleRule("/while\\s*\\([^)]+\\)\\s*[^{]/",
       <<Lit(<<"w", "h", "i", "l", "e">>) \o <<Star(WS)>> \o Lit(<<"(">>) \o <<NotPlus({")"})>>
         \o Lit(<<")">>) \o <<Star(WS), Not1({"{"})>> >>,
       "Use braces for single-line while loops", "medium", TRUE) >>],
  [category |-> "bestPractices", patterns |-> <<
    StyleRule("/var\\s+\\w+/", <<Lit(<<"v", "a", "r">>) \o <<Plus(WS), Plus(WordCh)>> >>,
       "Use let or const instead of var", "medium", TRUE),
    StyleRule("/==\\s*[^=]/", <<Lit(<<"=", "=">>) \o <<Star(WS), Not1({"="})>> >>,
       "Use === for strict equality comparison", "medium", TRUE),
    StyleRule("/!=\\s*[^=]/", <<Lit(<<"!", "=">>) \o <<Star(WS), Not1({"="})>> >>,
       "Use !== for strict inequality comparison", "medium", TRUE),
    StyleRule("/function\\s*\\(\\s*\\)\\s*{[\\s]*}/",
       <<Lit(<<"f", "u", "n", "c", "t", "i", "o", "n">>) \o <<Star(WS)>> \o Lit(<<"(">>) \o <<Star(WS)>>
         \o Lit(<<")">>) \o <<Star(WS)>> \o Lit(<<"{">>) \o <<Star(WS)>> \o Lit(<<"}">>)>>,
       "Empty function should have a comment explaining why", "low", FALSE) >>] >>

\* PerformanceAnalyzer.performancePatterns, in Object.entries order
PerfRule(source, pat, message) == [pattern |-> source, re |-> pat, message |-> message]
performancePatterns == <<
  [severity |-> "critical", patterns |-> <<
    PerfRule("/for\\s*\\(\\s*.*\\s*in\\s*.*\\s*\\)/",
       <<Lit(<<"f", "o", "r">>) \o <<Star(WS)>> \o Lit(<<"(">>)
         \o <<Star(WS), NotStar(LineEnd), Star(WS)>> \o Lit(<<"i", "n">>)
         \o <<Star(WS), NotStar(LineEnd), Star(WS)>> \o Lit(<<")">>)>>,
       "for...in loop on arrays - use for...of or Array methods"),
    PerfRule("/\\.length\\s*===\\s*\\d+/",
       <<Lit(<<".", "l", "e", "n", "g", "t", "h">>) \o <<Star(WS)>> \o Lit(<<"=", "=", "=">>) \o <<Star(WS), Plus(Digit)>> >>,
       "Length comparison in loop condition - cache length first"),
    PerfRule("/innerHTML\\s*\\+=/",
       <<Lit(<<"i", "n", "n", "e", "r", "H", "T", "M", "L">>) \o <<Star(WS)>> \o Lit(<<"+", "=">>)>>,
       "innerHTML concatenation - use DOM methods or fragments"),
    PerfRule("/document\\.write\\s*\\(/",
       <<Lit(<<"d", "o", "c", "u", "m", "e", "n", "t", ".", "w", "r", "i", "t", "e">>) \o <<Star(WS)>> \o Lit(<<"(">>)>>,
       "document.write() - blocks page rendering") >>],
  [severity |-> "high", patterns |-> <<
    PerfRule("/setTimeout\\s*\\(\\s*[\"']0[\"']/",
       <<Lit(<<"s", "e", "t", "T", "i", "m", "e", "o", "u", "t">>) \o <<Star(WS)>> \o Lit(<<"(">>)
         \o <<Star(WS), One({"\"", "'"})>> \o Lit(<<"0">>) \o <<One({"\"", "'"})>> >>,
       "setTimeout(0) - use requestAnimationFrame instead"),
    PerfRule("/setInterval\\s*\\(/",
       <<Lit(<<"s", "e", "t", "I", "n", "t", "e", "r", "v", "a", "l">>) \o <<Star(WS)>> \o Lit(<<"(">>)>>,
       "setInterval detected - ensure proper cleanup"),
    PerfRule("/\\.\\s*getElementById\\s*\\(/",
       <<Lit(<<".">>) \o <<Star(WS)>> \o Lit(<<"g", "e", "t", "E", "l", "e", "m", "e", "n", "t", "B", "y", "I", "d">>)
         \o <<Star(WS)>> \o Lit(<<"(">>)>>,
       "Repeated DOM queries - cache references"),
    PerfRule("/new\\s+Date\\(\\)\\.getTime\\(\\)/",
       <<Lit(<<"n", "e", "w">>) \o <<Plus(WS)>> \o Lit(<<"D", "a", "t", "e", "(", ")", ".", "g", "e", "t", "T", "i", "m", "e", "(", ")">>)>>,
       "Date.now() is more efficient than new Date().getTime()") >>],
  [severity |-> "medium", patterns |-> <<
    PerfRule("/console\\.log\\s*\\(/",
       <<Lit(<<"c", "o", "n", "s", "o", "l", "e", ".", "l", "o", "g">>) \o <<Star(WS)>> \o Lit(<<"(">>)>>,
       "console.log in production - remove or use conditional logging"),
    PerfRule("/\\.\\s*style\\s*\\./",
       <<Lit(<<".">>) \o <<Star(WS)>> \o Lit(<<"s", "t", "y", "l", "e">>) \o <<Star(WS)>> \o Lit(<<".">>)>>,
       "Direct style manipulation - use CSS classes"),
    PerfRule("/Math\\.floor\\(Math\\.random\\(\\)/",
       <<Lit(<<"M", "a", "t", "h", ".", "f", "l", "o", "o", "r", "(", "M", "a", "t", "h", ".", "r", "a", "n", "d", "o", "m", "(", ")">>)>>,
       "Math.random() for integers - use bitwise operations for better performance") >>] >>

\* the counting expressions of calculateMetrics and calculateFileMetrics
reComplexity == <<Lit(<<"i", "f">>), Lit(<<"f", "o", "r">>), Lit(<<"w", "h", "i", "l", "e">>), Lit(<<"s", "w", "i", "t", "c", "h">>), Lit(<<"c", "a", "t", "c", "h">>)>>
reFunctions == <<Lit(<<"f", "u", "n", "c", "t", "i", "o", "n">>) \o <<Plus(WS), Plus(WordCh)>>,
                 Lit(<<"=", ">">>) \o <<Star(WS)>> \o Lit(<<"{">>),
                 <<Plus(WordCh), Star(WS)>> \o Lit(<<":">>) \o <<Star(WS)>> \o Lit(<<"f", "u", "n", "c", "t", "i", "o", "n">>)>>
reArrow == <<Lit(<<"=", ">">>) \o <<Star(WS)>> \o Lit(<<"{">>)>>
reConst == <<Lit(<<"c", "o", "n", "s", "t">>) \o <<Plus(WS)>> >>
reLet == <<Lit(<<"l", "e", "t">>) \o <<Plus(WS)>> >>
reVar == <<Lit(<<"v", "a", "r">>) \o <<Plus(WS)>> >>
reJsdoc == <<Lit(<<"/", "*", "*">>) \o <<NotStarLazy({})>> \o Lit(<<"*", "/">>)>>
reFunctionWord == <<Lit(<<"f", "u", "n", "c", "t", "i", "o", "n">>)>>
reLoops == <<Lit(<<"f", "o", "r">>) \o <<Star(WS)>> \o Lit(<<"(">>),
             Lit(<<"w", "h", "i", "l", "e">>) \o <<Star(WS)>> \o Lit(<<"(">>),
             Lit(<<".", "f", "o", "r", "E", "a", "c", "h">>)>>
reDomQueries == <<Lit(<<".", "g", "e", "t", "E", "l", "e", "m", "e", "n", "t", "B", "y", "I", "d">>), Lit(<<".", "q", "u", "e", "r", "y", "S", "e", "l", "e", "c", "t", "o", "r">>),
                  Lit(<<".", "q", "u", "e", "r", "y", "S", "e", "l", "e", "c", "t", "o", "r", "A", "l", "l">>)>>

(* ---------------------------------------------------------------------- *)
(* Helpers on sequences                                                     *)
(* ---------------------------------------------------------------------- *)
RECURSIVE ConcatAll(_)
ConcatAll(ss) == IF ss = <<>> THEN <<>> ELSE Head(ss) \o ConcatAll(Tail(ss))
RECURSIVE SumSeq(_)
SumSeq(s) == IF s = <<>> THEN 0 ELSE Head(s) + SumSeq(Tail(s))
Opt(cond, x) == IF cond THEN <<x>> ELSE <<>>
Min(a, b) == IF a < b THEN a ELSE b
Max(a, b) == IF a > b THEN a ELSE b

\* line number of a match: the code searches the matched TEXT from the start
\* of the content (indexOf) and counts the lines before that position
lineNumber(content, m) == splitLength(SubSeq(content, 1, indexOf(content, m) - 1))

(* ---------------------------------------------------------------------- *)
(* AICodeReviewer: analysis of one file's content                           *)
(* ---------------------------------------------------------------------- *)
\* the rule's RegExp used without the g flag: match returns the first
\* occurrence only
checkPatternsRule_FirstOnly(content, rule) ==
  LET matches == match(content, rule.re)
  IN [i \in 1..Min(1, Len(matches)) |->
        [severity |-> rule.severity, message |-> rule.message,
         line |-> lineNumber(content, matches[i]), pattern |-> rule.pattern]]
checkPatternsRule(content, rule) ==
  LET matches == match(content, rule.re)
  IN [i \in 1..Len(matches) |->
        [severity |-> rule.severity, message |-> rule.message,
         line |-> lineNumber(content, matches[i]), pattern |-> rule.pattern]]
checkPatterns(content, patterns, issues) ==
  issues \o ConcatAll([r \in 1..Len(patterns) |-> checkPatternsRule(content, patterns[r])])

\* calculateMetrics; the line-class counts (codeLines, commentLines,
\* commentRatio) feed no decision and are left out of the record
calculateMetrics(content) ==
  [totalLines |-> splitLength(content),
   complexity |-> Len(match(content, reComplexity))]

generateSuggestions(content, metrics) ==
  Opt(includes(content, <<"v", "a", "r", " ">>),
      "Consider using let/const instead of var for better scoping")
  \o Opt(includes(content, <<"f", "u", "n", "c", "t", "i", "o", "n">>) /\ ~includes(content, <<"t", "y", "p", "e", "o", "f">>),
      "Consider adding input validation to functions")
  \o Opt(includes(content, <<"t", "r", "y">>) /\ ~includes(content, <<"c", "a", "t", "c", "h">>),
      "Consider adding error handling with try-catch blocks")
  \o Opt(includes(content, <<"f", "u", "n", "c", "t", "i", "o", "n">>) /\ ~includes(content, <<"/", "*", "*">>),
      "Consider adding JSDoc comments for better documentation")
  \o Opt(metrics.complexity > 10,
      "Consider reducing complexity or adding more tests")

identifyPositives(content, metrics) ==
  Opt(includes(content, <<"u", "s", "e", " ", "s", "t", "r", "i", "c", "t">>), "Uses strict mode - good practice")
  \o Opt(includes(content, <<"/", "*", "*">>), "Includes JSDoc documentation")
  \o Opt(includes(content, <<"c", "o", "n", "s", "t", " ">>) /\ ~includes(content, <<"v", "a", "r", " ">>),
      "Uses modern const/let declarations")
  \o Opt(includes(content, <<"a", "s", "y", "n", "c", " ">>) \/ includes(content, <<"a", "w", "a", "i", "t", " ">>),
      "Uses modern async/await syntax")
  \o Opt(includes(content, <<"=", ">">>), "Uses arrow functions - modern syntax")
  \o Opt(metrics.complexity < 5, "Low complexity - easy to maintain")

\* the fileAnalysis object built by analyzeFile for a readable file
ReviewFileAnalysis(file) ==
  LET content == file.content
      metrics == calculateMetrics(content)
  IN [file |-> file.name,
      issues |-> checkPatterns(content, codeQuality,
                   checkPatterns(content, performanceIssues,
                     checkPatterns(content, securityIssues, <<>>))),
      suggestions |-> generateSuggestions(content, metrics),
      positives |-> identifyPositives(content, metrics),
      metrics |-> metrics]

(* ---------------------------------------------------------------------- *)
(* CodeStyleReviewer: analysis of one file's content                        *)
(* ---------------------------------------------------------------------- *)
checkStyleRule(content, category, rule) ==
  LET matches == match(content, rule.re)
  IN [i \in 1..Len(matches) |->
        [category |-> category, severity |-> rule.severity,
         message |-> rule.message, autoFixable |-> rule.autoFixable,
         line |-> lineNumber(content, matches[i]), code |-> trim(matches[i])]]
checkStyleCategory(content, cat) ==
  ConcatAll([r \in 1..Len(cat.patterns) |->
               checkStyleRule(content, cat.category, cat.patterns[r])])
checkStylePatterns(content) ==
  ConcatAll([c \in 1..Len(stylePatterns) |-> checkStyleCategory(content, stylePatterns[c])])

\* calculateFileMetrics of the style reviewer (counts that feed the totals)
StyleFileMetrics(content) ==
  [totalLines |-> splitLength(content),
   functions |-> Len(match(content, reFunctions)),
   arrowFunctions |-> Len(match(content, reArrow)),
   constDeclarations |-> Len(match(content, reConst)),
   letDeclarations |-> Len(match(content, reLet)),
   varDeclarations |-> Len(match(content, reVar))]

StyleSuggestions(content) ==
  LET functions == Len(match(content, reFunctions))
      jsdocComments == Len(match(content, reJsdoc))
  IN Opt(functions > jsdocComments,
         [type |-> "documentation", count |-> functions - jsdocComments])
     \o Opt(includes(content, <<"f", "u", "n", "c", "t", "i", "o", "n">>) /\ ~includes(content, <<"t", "y", "p", "e", "o", "f">>),
         [type |-> "validation", count |-> 0])
     \o Opt(includes(content, <<"t", "r", "y">>) /\ ~includes(content, <<"c", "a", "t", "c", "h">>),
         [type |-> "error-handling", count |-> 0])
     \o Opt(includes(content, <<"r", "e", "t", "u", "r", "n">>) /\ includes(content, <<"i", "f">>),
         [type |-> "consistency", count |-> 0])
     \o Opt(includes(content, <<".", "b", "i", "n", "d", "(", "t", "h", "i", "s", ")">>),
         [type |-> "modernization", count |-> 0])

(* ---------------------------------------------------------------------- *)
(* PerformanceAnalyzer: analysis of one file's content                      *)
(* ---------------------------------------------------------------------- *)
checkPerfRule(content, severity, rule) ==
  LET matches == match(content, rule.re)
  IN [i \in 1..Len(matches) |->
        [severity |-> severity, message |-> rule.message,
         line |-> lineNumber(content, matches[i]), code |-> trim(matches[i])]]
checkPerfSeverity(content, grp) ==
  ConcatAll([r \in 1..Len(grp.patterns) |->
               checkPerfRule(content, grp.severity, grp.patterns[r])])
checkPerformancePatterns(content) ==
  ConcatAll([g \in 1..Len(performancePatterns) |->
               checkPerfSeverity(content, performancePatterns[g])])

generateOptimizations(content) ==
  Opt(includes(content, <<"i", "m", "p", "o", "r", "t", " ">>) /\ Len(content) > 1000, "lazy-loading")
  \o Opt(includes(content, <<"a", "d", "d", "E", "v", "e", "n", "t", "L", "i", "s", "t", "e", "n", "e", "r">>) /\ includes(content, <<"i", "n", "p", "u", "t">>),
         "debouncing")
  \o Opt(includes(content, <<"f", "u", "n", "c", "t", "i", "o", "n">>) /\ includes(content, <<"r", "e", "t", "u", "r", "n">>)
           /\ Len(match(content, reFunctionWord)) > 3, "memoization")
  \o Opt(includes(content, <<"m", "a", "p", "(">>) /\ includes(content, <<"A", "r", "r", "a", "y">>),
         "virtual-scrolling")

PerfFileMetrics(content) ==
  LET functions == Len(match(content, reFunctions))
      loops == Len(match(content, reLoops))
      domQueries == Len(match(content, reDomQueries))
  IN [totalLines |-> splitLength(content), functions |-> functions,
      loops |-> loops, domQueries |-> domQueries,
      complexity |-> functions + loops * 2 + domQueries]

(* ---------------------------------------------------------------------- *)
(* Source files on disk                                                     *)
(* ---------------------------------------------------------------------- *)
\* the modelled contents of a source file, per script: texts that the
\* script's patterns match once, several times, on several lines, or not
\* at all
ReviewTexts == { <<"e", "v", "a", "l", "(", "\n", "e", "v", "a", "l", "(", "e", "v", "a", "l", " ", "(", "e", "v", "a", "l", "(", "e", "v", "a", "l", "(", "e", "v", "a", "l", "(", "\n", "v", "a", "r", " ", "a", "=", "=", "b", "\n">>,
                  <<"/", "*", "*", "u", "s", "e", " ", "s", "t", "r", "i", "c", "t", "*", "/", "c", "o", "n", "s", "t", " ", "f", "=", "a", "s", "y", "n", "c", " ", "(", ")", "=", ">", "1", "\n">>,
                  <<"v", "a", "r", " ", "a", "=", "=", "b", "\n">>,
                  <<"e", "v", "a", "l", "(", "\n">> }
StyleTexts == { <<"=", "=", "a", "=", "=", "b", "=", "=", "c", "\n", "=", "=", "a", "=", "=", "b", "=", "=", "c", "\n", "v", "a", "r", " ", "v", "\n">>,
                 <<"c", "o", "n", "s", "t", " ", "K", "=", "(", ")", "=", ">", "{", "}", "\n">>,
                 <<"v", "a", "r", " ", "v", "\n">> }
PerfTexts == { <<"i", "n", "n", "e", "r", "H", "T", "M", "L", "+", "=", "\n">>,
                <<"i", "n", "n", "e", "r", "H", "T", "M", "L", " ", "+", "=", "i", "n", "n", "e", "r", "H", "T", "M", "L", "+", "=", "\n", "i", "n", "n", "e", "r", "H", "T", "M", "L", "+", "=", "s", "e", "t", "I", "n", "t", "e", "r", "v", "a", "l", "(", "c", "o", "n", "s", "o", "l", "e", ".", "l", "o", "g", "(", ".", "m", "a", "p", "(", "A", "r", "r", "a", "y", "\n">> }
SampleTexts(s) == CASE s = "review" -> ReviewTexts
               [] s = "style" -> StyleTexts
               [] s = "perf" -> PerfTexts
               [] OTHER -> {}
Texts(s) == {<<>>} \cup SampleTexts(s)

SrcName == <<"a", ".", "j", "s">>
TestName == <<"a", ".", "t", "e", "s", "t", ".", "j", "s">>
DocName == <<"a", ".", "m", "d">>
\* what an unreadable file holds (it is never read)
HiddenText(s) == CHOOSE t \in SampleTexts(s) : \A u \in SampleTexts(s) : Len(u) <= Len(t)

FileOptions(s) ==
  {[name |-> SrcName, content |-> c, readable |-> TRUE] : c \in Texts(s)}
  \cup {[name |-> SrcName, content |-> HiddenText(s), readable |-> FALSE],
        [name |-> TestName, content |-> <<>>, readable |-> TRUE],
        [name |-> DocName, content |-> <<>>, readable |-> TRUE]}
Disks(s) ==
  IF SampleTexts(s) = {} THEN {<<>>}
  ELSE UNION {[1..n -> FileOptions(s)] : n \in 0..MaxFiles}

\* path.extname
RECURSIVE LastDot(_, _)
LastDot(p, i) == IF i = 0 THEN 0 ELSE IF p[i] = "." THEN i ELSE LastDot(p, i - 1)
extname(p) ==
  LET i == LastDot(p, Len(p)) IN IF i <= 1 THEN <<>> ELSE SubSeq(p, i, Len(p))
extensions == { <<".", "j", "s">>, <<".", "j", "s", "x">>, <<".", "t", "s">>, <<".", "t", "s", "x">> }

\* the indices of a directory listing, in order
Indices(d) == [i \in 1..Len(d) |-> i]

\* AICodeReviewer.findFilesToReview over a flat directory: the paths
\* (indices into the directory listing) of the files that pass the filter
AICodeReviewer_findFilesToReview(d) ==
  LET Keep(i) == /\ extname(d[i].name) \in extensions
                 /\ ~includes(d[i].name, <<".", "t", "e", "s", "t", ".">>)
                 /\ ~includes(d[i].name, <<".", "s", "p", "e", "c", ".">>)
  IN SelectSeq(Indices(d), Keep)
\* CodeStyleReviewer.findFilesToReview and PerformanceAnalyzer.findFiles
findFiles(d) ==
  LET Keep(i) == extname(d[i].name) \in extensions IN SelectSeq(Indices(d), Keep)

(* ---------------------------------------------------------------------- *)
(* State                                                                    *)
(* ---------------------------------------------------------------------- *)
VARIABLES
  script,         \* which script the process runs
  pc,             \* position of the run
  disk,           \* the source files of the working directory
  files,          \* the discovered file list of the run
  idx,            \* position of the for..of loop over files
  reviewResults,  \* AICodeReviewer.reviewResults
  styleResults,   \* CodeStyleReviewer.results
  perfResults,    \* PerformanceAnalyzer.results
  assessment,     \* MergeReadinessAssessor.assessment
  analysis,       \* TestResultsAnalyzer.analysis
  lastRead,       \* the upstream report last read by the assessor and what read* returned
  history,        \* Calculator.history
  call,           \* the last call of a utility or Calculator method, with its outcome
  existing,       \* the report files found in the working directory at the start
  outputs,        \* the report files of the working directory
  console,        \* console.warn / console.error lines
  promise,        \* the promise returned by the run method
  exitCode,       \* exit code of the process once pc = "exit"
  error           \* message of the error thrown inside the run method, if any

vars == <<script, pc, disk, files, idx, reviewResults, styleResults, perfResults,
          assessment, analysis, lastRead, existing, outputs, console, promise, exitCode,
          error, history, call>>

Scripts == {"review", "style", "perf", "merge", "tests"}
OutputNames == {"ai-review-results.json", "ai-review-summary.md",
                "code-style-review-results.json", "style-guide-suggestions.json",
                "performance-analysis-results.json", "merge-readiness-results.json",
                "test-analysis-report.json", "test-analysis-summary.md"}
\* the report files each script writes, and the ones the assessor reads that
\* a script of this repository writes
\* both Markdown summaries under one name
OutputsOf_OneSummaryName(s) ==
  CASE s = "review" -> {"ai-review-results.json", "ai-review-summary.md"}
    [] s = "style" -> {"code-style-review-results.json", "style-guide-suggestions.json"}
    [] s = "perf" -> {"performance-analysis-results.json"}
    [] s = "merge" -> {"merge-readiness-results.json"}
    [] s = "tests" -> {"test-analysis-report.json", "ai-review-summary.md"}
OutputsOf(s) ==
  CASE s = "review" -> {"ai-review-results.json", "ai-review-summary.md"}
    [] s = "style" -> {"code-style-review-results.json", "style-guide-suggestions.json"}
    [] s = "perf" -> {"performance-analysis-results.json"}
    [] s = "merge" -> {"merge-readiness-results.json"}
    [] s = "tests" -> {"test-analysis-report.json", "test-analysis-summary.md"}
UpstreamNames == {"test-analysis-report.json", "code-style-review-results.json",
                  "performance-analysis-results.json"}
\* a report file: not there, left by an earlier run, or written by this run
Absent == [state |-> "absent"]
Prior == [state |-> "prior"]
\* the working directory at the start: a script finds none of its report
\* files or all of them from an earlier run of itself; the assessor finds
\* any of the upstream reports and possibly its own earlier report
ExistingSets(s) ==
  IF s = "merge" THEN {E \cup O : E \in SUBSET UpstreamNames, O \in {{}, OutputsOf(s)}}
  ELSE {{}, OutputsOf(s)}
Unset == [state |-> "unset"]
EmptyObject == [k \in {} |-> 0]
Written(content) == [state |-> "written", content |-> content]

\* the analysis of a new TestResultsAnalyzer
NewAnalysis ==
  [jestResults |-> Unset, coverage |-> [coverageSummary |-> Unset], otherResults |-> Unset,
   summary |-> EmptyObject, details |-> EmptyObject, recommendations |-> <<>>]
Init ==
  /\ script \in Scripts
  /\ disk \in Disks(script)
  /\ pc = "start"
  /\ files = <<>>
  /\ idx = 0
  /\ reviewResults = [score |-> 0, issues |-> <<>>, suggestions |-> <<>>,
                      positives |-> <<>>, fileAnalysis |-> <<>>]
  /\ styleResults = [score |-> 0, violations |-> <<>>, suggestions |-> <<>>,
                     metrics |-> <<>>]
  /\ perfResults = [score |-> 0, issues |-> <<>>, optimizations |-> <<>>,
                    metrics |-> <<>>]
  /\ assessment = [ready |-> FALSE, score |-> 0, blockers |-> <<>>,
                   warnings |-> <<>>, checks |-> <<>>]
  /\ analysis = NewAnalysis
  /\ lastRead = [file |-> "none"]
  /\ history = <<>>
  /\ call = [fn |-> "none"]
  /\ existing \in ExistingSets(script)
  /\ outputs = [n \in OutputNames |-> IF n \in existing THEN Prior ELSE Absent]
  /\ console = <<>>
  /\ promise = "pending"
  /\ exitCode = 0
  /\ error = "none"

(* ---------------------------------------------------------------------- *)
(* AICodeReviewer                                                           *)
(* ---------------------------------------------------------------------- *)
\* performReview starting from empty result lists
AICodeReviewer_performReview_FreshResults ==
  /\ script = "review" /\ pc = "start"
  /\ files' = AICodeReviewer_findFilesToReview(disk)
  /\ idx' = 1
  /\ pc' = "analyze"
  /\ reviewResults' = [reviewResults EXCEPT !.issues = <<>>, !.suggestions = <<>>,
                                            !.positives = <<>>, !.fileAnalysis = <<>>]
  /\ UNCHANGED <<history, call, existing, analysis, script, disk, styleResults, perfResults, assessment,
                 lastRead, outputs, console, promise, exitCode, error>>
\* performReview up to the loop: discover the files
AICodeReviewer_performReview ==
  /\ script = "review" /\ pc = "start"
  /\ files' = AICodeReviewer_findFilesToReview(disk)
  /\ idx' = 1
  /\ pc' = "analyze"
  /\ UNCHANGED <<history, call, existing, analysis, script, disk, reviewResults, styleResults, perfResults, assessment,
                 lastRead, outputs, console, promise, exitCode, error>>

\* analyzeFile without its try/catch: a failed read propagates to the run
AICodeReviewer_analyzeFile_NoCatch ==
  /\ script = "review" /\ pc = "analyze" /\ idx <= Len(files)
  /\ LET file == disk[files[idx]] IN
       IF file.readable
       THEN LET fileAnalysis == ReviewFileAnalysis(file) IN
            /\ reviewResults' =
                 [reviewResults EXCEPT
                    !.fileAnalysis = Append(@, fileAnalysis),
                    !.issues = @ \o fileAnalysis.issues,
                    !.suggestions = @ \o fileAnalysis.suggestions,
                    !.positives = @ \o fileAnalysis.positives]
            /\ idx' = idx + 1
            /\ UNCHANGED <<pc, error>>
       ELSE /\ pc' = "thrown"
            /\ error' = "cannot read file"
            /\ UNCHANGED <<reviewResults, idx>>
  /\ UNCHANGED <<history, call, existing, analysis, script, disk, files, styleResults, perfResults, assessment,
                 lastRead, outputs, console, promise, exitCode>>
\* analyzeFile(files[idx]): a failed read is caught, warned about and skipped
AICodeReviewer_analyzeFile ==
  /\ script = "review" /\ pc = "analyze" /\ idx <= Len(files)
  /\ LET file == disk[files[idx]] IN
       IF file.readable
       THEN LET fileAnalysis == ReviewFileAnalysis(file) IN
            /\ reviewResults' =
                 [reviewResults EXCEPT
                    !.fileAnalysis = Append(@, fileAnalysis),
                    !.issues = @ \o fileAnalysis.issues,
                    !.suggestions = @ \o fileAnalysis.suggestions,
                    !.positives = @ \o fileAnalysis.positives]
            /\ console' = console
       ELSE /\ reviewResults' = reviewResults
            /\ console' = Append(console, <<"warn", "could not analyze">>)
  /\ idx' = idx + 1
  /\ UNCHANGED <<history, call, existing, analysis, script, pc, disk, files, styleResults, perfResults, assessment,
                 lastRead, outputs, promise, exitCode, error>>

\* the score computed by calculateScore from the collected lists
\* the severity switch without its break statements: each case falls
\* through into the ones below it
RECURSIVE ReviewDeduct_Fallthrough(_, _)
ReviewDeduct_Fallthrough(score, issues) ==
  IF issues = <<>> THEN score
  ELSE ReviewDeduct_Fallthrough(
         CASE Head(issues).severity = "high" -> score - 17
           [] Head(issues).severity = "medium" -> score - 7
           [] Head(issues).severity = "low" -> score - 2
           [] OTHER -> score,
         Tail(issues))
RECURSIVE ReviewDeduct(_, _)
ReviewDeduct(score, issues) ==
  IF issues = <<>> THEN score
  ELSE ReviewDeduct(
         CASE Head(issues).severity = "high" -> score - 10
           [] Head(issues).severity = "medium" -> score - 5
           [] Head(issues).severity = "low" -> score - 2
           [] OTHER -> score,
         Tail(issues))
\* calculateScore without the final Math.max / Math.min
ReviewScore_Unclamped(issues, positives) ==
  ReviewDeduct(100, issues) + Min(Len(positives) * 2, 20)
ReviewScore(issues, positives) ==
  LET score == ReviewDeduct(100, issues) + Min(Len(positives) * 2, 20)
  IN Max(0, Min(100, score))

AICodeReviewer_calculateScore ==
  /\ script = "review" /\ pc = "analyze" /\ idx > Len(files)
  /\ reviewResults' = [reviewResults EXCEPT
                         !.score = ReviewScore(reviewResults.issues, reviewResults.positives)]
  /\ pc' = "report"
  /\ UNCHANGED <<history, call, existing, analysis, script, disk, files, idx, styleResults, perfResults, assessment,
                 lastRead, outputs, console, promise, exitCode, error>>

\* the grouping with issues put at the front of their group
AICodeReviewer_groupIssuesBySeverity_Unshift(issues) ==
  LET High(i) == i.severity = "high"
      Medium(i) == i.severity = "medium"
      Low(i) == i.severity = "low"
      Reverse(s) == [k \in 1..Len(s) |-> s[Len(s) + 1 - k]]
  IN [high |-> Reverse(SelectSeq(issues, High)), medium |-> Reverse(SelectSeq(issues, Medium)),
      low |-> Reverse(SelectSeq(issues, Low))]
AICodeReviewer_groupIssuesBySeverity(issues) ==
  LET High(i) == i.severity = "high"
      Medium(i) == i.severity = "medium"
      Low(i) == i.severity = "low"
  IN [high |-> SelectSeq(issues, High), medium |-> SelectSeq(issues, Medium),
      low |-> SelectSeq(issues, Low)]

\* the threshold of the medium rule (more than five) copied to the high rule
AICodeReviewer_generateRecommendations_HighAboveFive(r) ==
  LET High(i) == i.severity = "high"
      Medium(i) == i.severity = "medium"
  IN Opt(Len(SelectSeq(r.issues, High)) > 5,
         "Address high-severity security issues immediately")
     \o Opt(Len(SelectSeq(r.issues, Medium)) > 5,
         "Consider addressing medium-priority issues to improve code quality")
     \o Opt(Len(r.suggestions) > 10,
         "Many improvement opportunities - consider refactoring for maintainability")
     \o Opt(r.score < 70,
         "Code quality below threshold - focus on critical issues first")
AICodeReviewer_generateRecommendations(r) ==
  LET High(i) == i.severity = "high"
      Medium(i) == i.severity = "medium"
  IN Opt(Len(SelectSeq(r.issues, High)) > 0,
         "Address high-severity security issues immediately")
     \o Opt(Len(SelectSeq(r.issues, Medium)) > 5,
         "Consider addressing medium-priority issues to improve code quality")
     \o Opt(Len(r.suggestions) > 10,
         "Many improvement opportunities - consider refactoring for maintainability")
     \o Opt(r.score < 70,
         "Code quality below threshold - focus on critical issues first")

ReviewReport(r) ==
  [score |-> r.score,
   summary |-> [totalFiles |-> Len(r.fileAnalysis), totalIssues |-> Len(r.issues),
                totalSuggestions |-> Len(r.suggestions),
                totalPositives |-> Len(r.positives)],
   issuesBySeverity |-> AICodeReviewer_groupIssuesBySeverity(r.issues),
   fileAnalysis |-> r.fileAnalysis,
   recommendations |-> AICodeReviewer_generateRecommendations(r)]

\* the text of ai-review-summary.md, as the values it interpolates
generatePRSummary(report) ==
  [score |-> report.score, summary |-> report.summary,
   high |-> Len(report.issuesBySeverity.high),
   medium |-> Len(report.issuesBySeverity.medium),
   low |-> Len(report.issuesBySeverity.low),
   recommendations |-> report.recommendations,
   files |-> [i \in 1..Len(report.fileAnalysis) |->
                [file |-> report.fileAnalysis[i].file,
                 issues |-> Len(report.fileAnalysis[i].issues),
                 suggestions |-> Len(report.fileAnalysis[i].suggestions),
                 positives |-> Len(report.fileAnalysis[i].positives)]]]

\* generateReviewReport: two writeFileSync calls, either of which may throw
AICodeReviewer_generateReviewReport ==
  /\ script = "review" /\ pc = "report"
  /\ LET report == ReviewReport(reviewResults) IN
     \E jsonOk \in BOOLEAN, mdOk \in BOOLEAN :
       /\ outputs' =
            IF ~jsonOk THEN outputs
            ELSE IF ~mdOk
            THEN [outputs EXCEPT !["ai-review-results.json"] = Written(report)]
            ELSE [outputs EXCEPT !["ai-review-results.json"] = Written(report),
                                 !["ai-review-summary.md"] = Written(generatePRSummary(report))]
       /\ pc' = IF jsonOk /\ mdOk THEN "complete" ELSE "thrown"
       /\ error' = IF ~jsonOk THEN "cannot write ai-review-results.json"
                   ELSE IF ~mdOk THEN "cannot write ai-review-summary.md"
                   ELSE error
  /\ UNCHANGED <<history, call, existing, analysis, script, disk, files, idx, reviewResults, styleResults, perfResults,
                 assessment, lastRead, console, promise, exitCode>>

(* ---------------------------------------------------------------------- *)
(* End of a run: the try/catch of the run method and the entry point        *)
(* ---------------------------------------------------------------------- *)
\* the run method returns its results: the promise is fulfilled
RunReturn ==
  /\ pc = "complete"
  /\ promise' = "fulfilled"
  /\ pc' = "settled"
  /\ UNCHANGED <<history, call, existing, analysis, script, disk, files, idx, reviewResults, styleResults, perfResults,
                 assessment, lastRead, outputs, console, exitCode, error>>

\* catch (error) { console.error(...); throw error; }
RunCatch ==
  /\ pc = "thrown"
  /\ console' = Append(console, <<"error in run", error>>)
  /\ promise' = "rejected"
  /\ pc' = "settled"
  /\ UNCHANGED <<history, call, existing, analysis, script, disk, files, idx, reviewResults, styleResults, perfResults,
                 assessment, lastRead, outputs, exitCode, error>>

\* exit code of a Node process whose main promise settled: nonzero only
\* for a rejection that no handler took
ProcessExitCode(p, handled) == IF p = "rejected" /\ ~handled THEN 1 ELSE 0

\* run(...).catch(console.error): the handler prints a rejection and thereby
\* handles it; the process then ends
CliCatch ==
  /\ pc = "settled"
  /\ console' = IF promise = "rejected" THEN Append(console, <<"error at entry point", error>>)
                ELSE console
  /\ exitCode' = ProcessExitCode(promise, TRUE)
  /\ pc' = "exit"
  /\ UNCHANGED <<history, call, existing, analysis, script, disk, files, idx, reviewResults, styleResults, perfResults,
                 assessment, lastRead, outputs, promise, error>>

(* ---------------------------------------------------------------------- *)
(* Report files read back as JSON                                           *)
(* ---------------------------------------------------------------------- *)
\* an upstream report file: absent, not parseable, or a parsed JSON object
Malformed == [state |-> "malformed"]
Json(obj) == [state |-> "json", json |-> obj]
\* report.a?.b || 0 and report.a?.b?.length || 0 and report.a || 0
NumAt(obj, a, b) ==
  IF a \in DOMAIN obj /\ b \in DOMAIN obj[a] THEN obj[a][b] ELSE 0
LengthAt(obj, a, b) ==
  IF a \in DOMAIN obj /\ b \in DOMAIN obj[a] THEN Len(obj[a][b]) ELSE 0
NumOr0(obj, a) == IF a \in DOMAIN obj THEN obj[a] ELSE 0

(* ---------------------------------------------------------------------- *)
(* CodeStyleReviewer                                                        *)
(* ---------------------------------------------------------------------- *)
CodeStyleReviewer_review ==
  /\ script = "style" /\ pc = "start"
  /\ files' = findFiles(disk)
  /\ idx' = 1
  /\ pc' = "analyze"
  /\ UNCHANGED <<history, call, existing, analysis, script, disk, reviewResults, styleResults, perfResults, assessment,
                 lastRead, outputs, console, promise, exitCode, error>>

CodeStyleReviewer_reviewFile ==
  /\ script = "style" /\ pc = "analyze" /\ idx <= Len(files)
  /\ LET file == disk[files[idx]] IN
       IF file.readable
       THEN /\ styleResults' =
                 [styleResults EXCEPT
                    !.violations = @ \o checkStylePatterns(file.content),
                    !.suggestions = @ \o StyleSuggestions(file.content)]
            /\ console' = console
       ELSE /\ styleResults' = styleResults
            /\ console' = Append(console, <<"warn", "could not review">>)
  /\ idx' = idx + 1
  /\ UNCHANGED <<history, call, existing, analysis, script, pc, disk, files, reviewResults, perfResults, assessment,
                 lastRead, outputs, promise, exitCode, error>>

\* this.results.metrics.<key> || 0
MetricOr0(metrics, key) == IF key \in DOMAIN metrics THEN metrics[key] ELSE 0

calculateModernizationBonus(metrics) ==
  LET totalConst == MetricOr0(metrics, "const")
      totalLet == MetricOr0(metrics, "let")
      totalVar == MetricOr0(metrics, "var")
      totalFunctions == MetricOr0(metrics, "functions")
      totalArrowFunctions == MetricOr0(metrics, "arrowFunctions")
  IN ((totalConst + totalLet + totalArrowFunctions) * 10)
       \div (totalConst + totalLet + totalVar + totalFunctions + 1)

RECURSIVE StyleDeduct(_, _)
StyleDeduct(score, violations) ==
  IF violations = <<>> THEN score
  ELSE StyleDeduct(
         CASE Head(violations).severity = "high" -> score - 10
           [] Head(violations).severity = "medium" -> score - 5
           [] Head(violations).severity = "low" -> score - 2
           [] OTHER -> score,
         Tail(violations))
StyleScore(violations, metrics) ==
  LET modernFiles == calculateModernizationBonus(metrics)
      score == StyleDeduct(100, violations) + Min(modernFiles * 5, 20)
  IN Max(0, Min(100, score))

CodeStyleReviewer_calculateScore ==
  /\ script = "style" /\ pc = "analyze" /\ idx > Len(files)
  /\ styleResults' = [styleResults EXCEPT
                        !.score = StyleScore(styleResults.violations, styleResults.metrics)]
  /\ pc' = "report"
  /\ UNCHANGED <<history, call, existing, analysis, script, disk, files, idx, reviewResults, perfResults, assessment,
                 lastRead, outputs, console, promise, exitCode, error>>

groupViolationsByCategory(violations) ==
  LET cats == {violations[i].category : i \in 1..Len(violations)}
  IN [c \in cats |-> LET In(v) == v.category = c IN SelectSeq(violations, In)]
groupViolationsBySeverity(violations) ==
  LET High(v) == v.severity = "high"
      Medium(v) == v.severity = "medium"
      Low(v) == v.severity = "low"
  IN [high |-> SelectSeq(violations, High), medium |-> SelectSeq(violations, Medium),
      low |-> SelectSeq(violations, Low)]

\* a fraction a/b is kept as the pair [num, den]
Below(q, num, den) == q.num * den < num * q.den

CodeStyleReviewer_generateRecommendations(r) ==
  LET AutoFixable(v) == v.autoFixable
      High(v) == v.severity = "high"
      autoFixableCount == Len(SelectSeq(r.violations, AutoFixable))
      highSeverityCount == Len(SelectSeq(r.violations, High))
      categoryGroups == groupViolationsByCategory(r.violations)
  IN IF Len(r.violations) = 0
     THEN <<[priority |-> "info", message |-> "Excellent code style! No violations detected.", count |-> 0]>>
     ELSE Opt(autoFixableCount > 0,
              [priority |-> "high", message |-> "violations can be auto-fixed with lint:fix",
               count |-> autoFixableCount])
          \o Opt(highSeverityCount > 0,
              [priority |-> "critical",
               message |-> "high-severity violations need immediate attention",
               count |-> highSeverityCount])
          \o Opt("modernizationScore" \in DOMAIN r.metrics
                   /\ Below(r.metrics.modernizationScore, 1, 2),
              [priority |-> "medium",
               message |-> "Consider modernizing code with ES6+ features (const/let, arrow functions)",
               count |-> 0])
          \o Opt("naming" \in DOMAIN categoryGroups /\ Len(categoryGroups["naming"]) > 3,
              [priority |-> "medium",
               message |-> "Establish and enforce consistent naming conventions",
               count |-> 0])

\* calculateOverallMetrics: reads again every file found under '.'
CodeStyleReviewer_calculateOverallMetrics(d) ==
  LET found == findFiles(d)
      Readable(i) == d[i].readable
      read == SelectSeq(found, Readable)
      m == [k \in 1..Len(read) |-> StyleFileMetrics(d[read[k]].content)]
      totalLines == SumSeq([k \in 1..Len(m) |-> m[k].totalLines])
      totalFunctions == SumSeq([k \in 1..Len(m) |-> m[k].functions])
      totalConst == SumSeq([k \in 1..Len(m) |-> m[k].constDeclarations])
      totalLet == SumSeq([k \in 1..Len(m) |-> m[k].letDeclarations])
      totalVar == SumSeq([k \in 1..Len(m) |-> m[k].varDeclarations])
      totalArrowFunctions == SumSeq([k \in 1..Len(m) |-> m[k].arrowFunctions])
  IN [totalLines |-> totalLines, totalFunctions |-> totalFunctions,
      totalConst |-> totalConst, totalLet |-> totalLet, totalVar |-> totalVar,
      totalArrowFunctions |-> totalArrowFunctions,
      modernizationScore |->
        [num |-> totalConst + totalLet + totalArrowFunctions,
         den |-> totalConst + totalLet + totalVar + totalFunctions + 1]]

StyleReport(r) ==
  LET AutoFixable(v) == v.autoFixable
  IN [score |-> r.score,
      totalViolations |-> Len(r.violations),
      totalSuggestions |-> Len(r.suggestions),
      violationsByCategory |-> groupViolationsByCategory(r.violations),
      violationsBySeverity |-> groupViolationsBySeverity(r.violations),
      autoFixableViolations |-> Len(SelectSeq(r.violations, AutoFixable)),
      recommendations |-> CodeStyleReviewer_generateRecommendations(r)]

\* generateReport: the report object is built first (recommendations
\* included), then the overall metrics are computed, then two files written
CodeStyleReviewer_generateReport ==
  /\ script = "style" /\ pc = "report"
  /\ LET report == StyleReport(styleResults) IN
     \E jsonOk \in BOOLEAN, guideOk \in BOOLEAN :
       /\ styleResults' = [styleResults EXCEPT
                             !.metrics = CodeStyleReviewer_calculateOverallMetrics(disk)]
       /\ outputs' =
            IF ~jsonOk THEN outputs
            ELSE IF ~guideOk
            THEN [outputs EXCEPT !["code-style-review-results.json"] = Written(report)]
            ELSE [outputs EXCEPT !["code-style-review-results.json"] = Written(report),
                                 !["style-guide-suggestions.json"] = Written("style guide")]
       /\ pc' = IF jsonOk /\ guideOk THEN "complete" ELSE "thrown"
       /\ error' = IF ~jsonOk THEN "cannot write code-style-review-results.json"
                   ELSE IF ~guideOk THEN "cannot write style-guide-suggestions.json"
                   ELSE error
  /\ UNCHANGED <<history, call, existing, analysis, script, disk, files, idx, reviewResults, perfResults, assessment,
                 lastRead, console, promise, exitCode>>

(* ---------------------------------------------------------------------- *)
(* PerformanceAnalyzer                                                      *)
(* ---------------------------------------------------------------------- *)
PerformanceAnalyzer_analyze ==
  /\ script = "perf" /\ pc = "start"
  /\ files' = findFiles(disk)
  /\ idx' = 1
  /\ pc' = "analyze"
  /\ UNCHANGED <<history, call, existing, analysis, script, disk, reviewResults, styleResults, perfResults, assessment,
                 lastRead, outputs, console, promise, exitCode, error>>

PerformanceAnalyzer_analyzeFile ==
  /\ script = "perf" /\ pc = "analyze" /\ idx <= Len(files)
  /\ LET file == disk[files[idx]] IN
       IF file.readable
       THEN /\ perfResults' =
                 [perfResults EXCEPT
                    !.issues = @ \o checkPerformancePatterns(file.content),
                    !.optimizations = @ \o generateOptimizations(file.content),
                    !.metrics = Append(@, PerfFileMetrics(file.content))]
            /\ console' = console
       ELSE /\ perfResults' = perfResults
            /\ console' = Append(console, <<"warn", "could not analyze">>)
  /\ idx' = idx + 1
  /\ UNCHANGED <<history, call, existing, analysis, script, pc, disk, files, reviewResults, styleResults, assessment,
                 lastRead, outputs, promise, exitCode, error>>

\* the severity switch with the weights of the code review (10/5/2 for
\* high/medium/low) and no case for critical
RECURSIVE PerfDeduct_ReviewWeights(_, _)
PerfDeduct_ReviewWeights(score, issues) ==
  IF issues = <<>> THEN score
  ELSE PerfDeduct_ReviewWeights(
         CASE Head(issues).severity = "high" -> score - 10
           [] Head(issues).severity = "medium" -> score - 5
           [] Head(issues).severity = "low" -> score - 2
           [] OTHER -> score,
         Tail(issues))
RECURSIVE PerfDeduct(_, _)
PerfDeduct(score, issues) ==
  IF issues = <<>> THEN score
  ELSE PerfDeduct(
         CASE Head(issues).severity = "critical" -> score - 15
           [] Head(issues).severity = "high" -> score - 8
           [] Head(issues).severity = "medium" -> score - 3
           [] OTHER -> score,
         Tail(issues))
PerfScore(issues, optimizations) ==
  LET score == PerfDeduct(100, issues) + Min(Len(optimizations) * 2, 15)
  IN Max(0, Min(100, score))

PerformanceAnalyzer_calculateScore ==
  /\ script = "perf" /\ pc = "analyze" /\ idx > Len(files)
  /\ perfResults' = [perfResults EXCEPT
                       !.score = PerfScore(perfResults.issues, perfResults.optimizations)]
  /\ pc' = "report"
  /\ UNCHANGED <<history, call, existing, analysis, script, disk, files, idx, reviewResults, styleResults, assessment,
                 lastRead, outputs, console, promise, exitCode, error>>

PerformanceAnalyzer_groupIssuesBySeverity(issues) ==
  LET Critical(i) == i.severity = "critical"
      High(i) == i.severity = "high"
      Medium(i) == i.severity = "medium"
  IN [critical |-> SelectSeq(issues, Critical), high |-> SelectSeq(issues, High),
      medium |-> SelectSeq(issues, Medium)]

PerformanceAnalyzer_calculateOverallMetrics(metrics) ==
  LET totalLines == SumSeq([k \in 1..Len(metrics) |-> metrics[k].totalLines])
      totalFunctions == SumSeq([k \in 1..Len(metrics) |-> metrics[k].functions])
      totalLoops == SumSeq([k \in 1..Len(metrics) |-> metrics[k].loops])
      totalDomQueries == SumSeq([k \in 1..Len(metrics) |-> metrics[k].domQueries])
  IN [totalLines |-> totalLines, totalFunctions |-> totalFunctions,
      totalLoops |-> totalLoops, totalDomQueries |-> totalDomQueries,
      averageComplexity |->
        IF totalLines > 0
        THEN [num |-> totalFunctions + totalLoops * 2 + totalDomQueries,
              den |-> Len(metrics)]
        ELSE [num |-> 0, den |-> 1]]

PerformanceAnalyzer_generateRecommendations(r) ==
  LET Critical(i) == i.severity = "critical"
  IN Opt(Len(SelectSeq(r.issues, Critical)) > 0,
         "Address critical performance issues immediately - they impact user experience")
     \o Opt(SumSeq([k \in 1..Len(r.metrics) |-> r.metrics[k].domQueries]) > 20,
         "High DOM query count - consider caching references")
     \o Opt(SumSeq([k \in 1..Len(r.metrics) |-> r.metrics[k].loops]) > 10,
         "Optimize loops - consider using built-in methods or reducing iterations")
     \o Opt(r.score < 70,
         "Overall performance score low - focus on critical and high-priority issues")

PerfReport(r) ==
  [score |-> r.score,
   totalIssues |-> Len(r.issues),
   totalOptimizations |-> Len(r.optimizations),
   issuesBySeverity |-> PerformanceAnalyzer_groupIssuesBySeverity(r.issues),
   metrics |-> PerformanceAnalyzer_calculateOverallMetrics(r.metrics),
   recommendations |-> PerformanceAnalyzer_generateRecommendations(r)]

\* generateReport called from inside the loop: the report goes out as soon
\* as one file has been analysed, before the score is computed
PerformanceAnalyzer_generateReport_InsideLoop ==
  /\ script = "perf" /\ pc = "analyze" /\ idx > 1
  /\ \E jsonOk \in BOOLEAN :
       /\ outputs' =
            IF jsonOk
            THEN [outputs EXCEPT
                    !["performance-analysis-results.json"] = Written(PerfReport(perfResults))]
            ELSE outputs
       /\ pc' = IF jsonOk THEN "complete" ELSE "thrown"
       /\ error' = IF jsonOk THEN error
                   ELSE "cannot write performance-analysis-results.json"
  /\ UNCHANGED <<history, call, existing, analysis, script, disk, files, idx, reviewResults, styleResults, perfResults,
                 assessment, lastRead, console, promise, exitCode>>
PerformanceAnalyzer_generateReport ==
  /\ script = "perf" /\ pc = "report"
  /\ \E jsonOk \in BOOLEAN :
       /\ outputs' =
            IF jsonOk
            THEN [outputs EXCEPT
                    !["performance-analysis-results.json"] = Written(PerfReport(perfResults))]
            ELSE outputs
       /\ pc' = IF jsonOk THEN "complete" ELSE "thrown"
       /\ error' = IF jsonOk THEN error
                   ELSE "cannot write performance-analysis-results.json"
  /\ UNCHANGED <<history, call, existing, analysis, script, disk, files, idx, reviewResults, styleResults, perfResults,
                 assessment, lastRead, console, promise, exitCode>>

(* ---------------------------------------------------------------------- *)
(* TestResultsAnalyzer                                                      *)
(* ---------------------------------------------------------------------- *)
\* test-results.json. The assertionResults array of a suite enters the
\* analysis only through the number of entries of each status and is kept
\* as those numbers; a suite may also lack the array
JestResults ==
  LET Suite(p, f, s, o) ==
        [assertionResults |-> [passed |-> p, failed |-> f, pending |-> s, other |-> o]]
  IN {Absent, Malformed, Json(EmptyObject)} \cup
     {Json([testResults |-> ts]) :
        ts \in { <<>>, <<Suite(1, 0, 0, 0)>>, <<Suite(1, 1, 0, 0), Suite(0, 0, 1, 1)>>,
                 <<Suite(2, 1, 0, 0), EmptyObject>>, <<Suite(0, 0, 1, 0)>>,
                 <<Suite(200, 1, 0, 0)>>, <<Suite(23, 17, 0, 0)>> }}
CoverageSummaries ==
  {Absent, Malformed, Json(EmptyObject)} \cup
  {Json([total |-> t, lines |-> [pct |-> 80], functions |-> [pct |-> f],
         branches |-> [pct |-> b], statements |-> [pct |-> 80]]) :
     t \in {0, 65, 100}, f \in {0, 100}, b \in {55, 100}} \cup
  {Json([total |-> 0, lines |-> [pct |-> 80], functions |-> [pct |-> 83],
         branches |-> [pct |-> 1], statements |-> [pct |-> 80]]),
   Json([total |-> 100, lines |-> [pct |-> 80], functions |-> [pct |-> 95],
         branches |-> [pct |-> 100], statements |-> [pct |-> 80]])}
\* test-results.xml, junit.xml, results.xml: none there, one readable, or
\* the first one there not readable
OtherResults == {"none", "readable", "unreadable"}

\* JSON.parse(fs.readFileSync(...)) inside try: the catch warns and leaves
\* the field of the analysis unset
readJestResults(f) == IF f.state = "json" THEN [state |-> "set", value |-> f.json] ELSE Unset
readCoverageReport(f) == IF f.state = "json" THEN [state |-> "set", value |-> f.json] ELSE Unset

TestResultsAnalyzer_readTestResults ==
  /\ script = "tests" /\ pc = "start"
  /\ \E jf \in JestResults, cf \in CoverageSummaries, other \in OtherResults :
       /\ analysis' = [analysis EXCEPT
                         !.jestResults = readJestResults(jf),
                         !.coverage = [coverageSummary |-> readCoverageReport(cf)],
                         !.otherResults = IF other = "readable"
                                          THEN [state |-> "set", value |-> "xml"]
                                          ELSE Unset]
       /\ console' = console
                       \o Opt(jf.state = "malformed", <<"warn", "Could not read Jest results">>)
                       \o Opt(cf.state = "malformed", <<"warn", "Could not read coverage report">>)
       /\ lastRead' = [file |-> "test-results.json", state |-> jf.state,
                       result |-> readJestResults(jf)]
       /\ pc' = IF other = "unreadable" THEN "thrown" ELSE "analyzeResults"
       /\ error' = IF other = "unreadable" THEN "cannot read test result file" ELSE error
  /\ UNCHANGED <<history, call, existing, script, disk, files, idx, reviewResults, styleResults, perfResults,
                 assessment, outputs, promise, exitCode>>

\* JavaScript numbers are IEEE 754 doubles: 53 significant bits, every
\* operation rounded to the nearest double, ties to the even one. The
\* values met here lie in [0, 128) and have no bit below 2^-64, so a number is
\* kept as its binary digits: digit i of 71 weighs 2^(7 - i)
DoubleOf(n) == [i \in 1..71 |-> IF i <= 7 THEN (n \div 2^(7 - i)) % 2 ELSE 0]
\* digits lo..hi of a + b and of a * w with the carry coming in from below,
\* and the carry going out; the span is halved so that no evaluation nests
\* deeply
RECURSIVE AddDigits(_, _, _, _, _)
AddDigits(a, b, lo, hi, carry) ==
  IF lo = hi
  THEN [digits |-> <<(a[lo] + b[lo] + carry) % 2>>, carry |-> (a[lo] + b[lo] + carry) \div 2]
  ELSE TheOne({TheOne({[digits |-> upper.digits \o lower.digits, carry |-> upper.carry] :
                         upper \in {AddDigits(a, b, lo, (lo + hi) \div 2, lower.carry)}}) :
                 lower \in {AddDigits(a, b, (lo + hi) \div 2 + 1, hi, carry)}})
RECURSIVE MulDigits(_, _, _, _, _)
MulDigits(a, w, lo, hi, carry) ==
  IF lo = hi
  THEN [digits |-> <<(a[lo] * w + carry) % 2>>, carry |-> (a[lo] * w + carry) \div 2]
  ELSE TheOne({TheOne({[digits |-> upper.digits \o lower.digits, carry |-> upper.carry] :
                         upper \in {MulDigits(a, w, lo, (lo + hi) \div 2, lower.carry)}}) :
                 lower \in {MulDigits(a, w, (lo + hi) \div 2 + 1, hi, carry)}})
\* the first k digits after the point of r / d for r < d, and what is left
\* of r after them
RECURSIVE FractionDigits(_, _, _)
FractionDigits(r, d, k) ==
  IF k = 1 THEN [digits |-> <<(2 * r) \div d>>, rest |-> (2 * r) % d]
  ELSE TheOne({TheOne({[digits |-> first.digits \o second.digits, rest |-> second.rest] :
                         second \in {FractionDigits(first.rest, d, k - k \div 2)}}) :
                 first \in {FractionDigits(r, d, k \div 2)}})
\* the nearest double of an exact value given by its digits and by whether
\* anything non-zero lies below them
NearestDouble(digits, below) ==
  IF \A i \in 1..71 : digits[i] = 0 THEN digits
  ELSE LET last == SetMin({i \in 1..71 : digits[i] = 1}) + 52
       IN IF last >= 71 THEN digits
          ELSE LET kept == [i \in 1..71 |-> IF i <= last THEN digits[i] ELSE 0]
                   up == /\ digits[last + 1] = 1
                         /\ \/ below
                            \/ \E j \in (last + 2)..71 : digits[j] = 1
                            \/ digits[last] = 1
               IN IF up
                  THEN AddDigits(kept, [i \in 1..71 |-> IF i = last THEN 1 ELSE 0],
                                 1, 71, 0).digits
                  ELSE kept
\* n / d for two integers, x * w for an integer w, x + y
DoubleDiv(n, d) ==
  TheOne({NearestDouble([i \in 1..7 |-> DoubleOf(n \div d)[i]] \o fraction.digits,
                        fraction.rest # 0) :
            fraction \in {FractionDigits(n % d, d, 64)}})
DoubleMul(x, w) ==
  TheOne({TheOne({NearestDouble(product, FALSE) : product \in {MulDigits(a, w, 1, 71, 0).digits}}) :
            a \in {x}})
DoubleAdd(x, y) ==
  TheOne({TheOne({NearestDouble(sum, FALSE) : sum \in {AddDigits(a, b, 1, 71, 0).digits}}) :
            a \in {x}, b \in {y}})
\* Math.round(x): the integer nearest to x, a half going up
Math_round(x) == SumSeq([i \in 1..7 |-> x[i] * 2^(7 - i)]) + x[8]

\* (suite.assertionResults || []).filter(r => r.status === status).length,
\* and .length itself for the status "any"
SuiteCount(suite, status) ==
  IF "assertionResults" \notin DOMAIN suite THEN 0
  ELSE IF status = "any"
  THEN suite.assertionResults.passed + suite.assertionResults.failed
       + suite.assertionResults.pending + suite.assertionResults.other
  ELSE suite.assertionResults[status]

analyzeJestResults(results) ==
  LET testResults == IF "testResults" \in DOMAIN results THEN results.testResults ELSE <<>>
      Total(status) == SumSeq([i \in 1..Len(testResults) |-> SuiteCount(testResults[i], status)])
      totalTests == Total("any")
  IN [totalTests |-> totalTests,
      passedTests |-> Total("passed"),
      failedTests |-> Total("failed"),
      skippedTests |-> Total("pending"),
      successRate |-> IF totalTests > 0 THEN Math_round(DoubleMul(DoubleDiv(Total("passed"), totalTests), 100)) ELSE 0,
      failureRate |-> IF totalTests > 0 THEN Math_round(DoubleMul(DoubleDiv(Total("failed"), totalTests), 100)) ELSE 0,
      testSuites |-> Len(testResults)]

PctOr0(obj, a) == IF a \in DOMAIN obj /\ "pct" \in DOMAIN obj[a] THEN obj[a].pct ELSE 0
analyzeCoverage(coverage) ==
  [overall |-> NumOr0(coverage, "total"),
   lines |-> PctOr0(coverage, "lines"),
   functions |-> PctOr0(coverage, "functions"),
   branches |-> PctOr0(coverage, "branches"),
   statements |-> PctOr0(coverage, "statements")]

calculateOverallSummary(details) ==
  LET jest == IF "jest" \in DOMAIN details THEN details.jest ELSE EmptyObject
      coverage == IF "coverage" \in DOMAIN details THEN details.coverage ELSE EmptyObject
  IN [totalTests |-> NumOr0(jest, "totalTests"),
      passedTests |-> NumOr0(jest, "passedTests"),
      failedTests |-> NumOr0(jest, "failedTests"),
      skippedTests |-> NumOr0(jest, "skippedTests"),
      successRate |-> NumOr0(jest, "successRate"),
      failureRate |-> NumOr0(jest, "failureRate"),
      overallCoverage |-> NumOr0(coverage, "overall"),
      linesCoverage |-> NumOr0(coverage, "lines"),
      functionsCoverage |-> NumOr0(coverage, "functions"),
      branchesCoverage |-> NumOr0(coverage, "branches"),
      statementsCoverage |-> NumOr0(coverage, "statements")]

analyzeResults(a) ==
  LET details ==
        (IF a.jestResults.state = "set"
         THEN [k \in {"jest"} |-> analyzeJestResults(a.jestResults.value)]
         ELSE EmptyObject)
        @@ (IF a.coverage.coverageSummary.state = "set"
            THEN [k \in {"coverage"} |-> analyzeCoverage(a.coverage.coverageSummary.value)]
            ELSE EmptyObject)
  IN [a EXCEPT !.details = details, !.summary = calculateOverallSummary(details)]
TestResultsAnalyzer_analyzeResults ==
  /\ script = "tests" /\ pc = "analyzeResults"
  /\ analysis' = analyzeResults(analysis)
  /\ pc' = "generateRecommendations"
  /\ UNCHANGED <<history, call, existing, script, disk, files, idx, reviewResults, styleResults, perfResults,
                 assessment, lastRead, outputs, console, promise, exitCode, error>>

\* the recommendations by priority and type; the message texts are left out
Recommendation(priority, type) == [priority |-> priority, type |-> type]
\* the failed-tests rule taken from the success rate
generateRecommendations_FailedFromRate(summary) ==
  Opt(summary.successRate < 80, Recommendation("high", "test-quality"))
  \o Opt(summary.successRate < 95, Recommendation("medium", "test-stability"))
  \o Opt(summary.overallCoverage < 70, Recommendation("high", "coverage"))
  \o Opt(summary.overallCoverage < 90, Recommendation("medium", "coverage"))
  \o Opt(summary.branchesCoverage < 60, Recommendation("medium", "branch-coverage"))
  \o Opt(summary.totalTests < 10, Recommendation("low", "test-quantity"))
  \o Opt(summary.successRate < 100, Recommendation("critical", "failed-tests"))
generateRecommendations(summary) ==
  Opt(summary.successRate < 80, Recommendation("high", "test-quality"))
  \o Opt(summary.successRate < 95, Recommendation("medium", "test-stability"))
  \o Opt(summary.overallCoverage < 70, Recommendation("high", "coverage"))
  \o Opt(summary.overallCoverage < 90, Recommendation("medium", "coverage"))
  \o Opt(summary.branchesCoverage < 60, Recommendation("medium", "branch-coverage"))
  \o Opt(summary.totalTests < 10, Recommendation("low", "test-quantity"))
  \o Opt(summary.failedTests > 0, Recommendation("critical", "failed-tests"))
TestResultsAnalyzer_generateRecommendations ==
  /\ script = "tests" /\ pc = "generateRecommendations"
  /\ analysis' = [analysis EXCEPT !.recommendations = generateRecommendations(analysis.summary)]
  /\ pc' = "report"
  /\ UNCHANGED <<history, call, existing, script, disk, files, idx, reviewResults, styleResults, perfResults,
                 assessment, lastRead, outputs, console, promise, exitCode, error>>

\* the score cut off instead of rounded
calculateQualityScore_Truncated(summary) ==
  (summary.successRate * 40 + summary.overallCoverage * 30
   + summary.branchesCoverage * 20 + summary.functionsCoverage * 10) \div 100
\* score = 0; score += (x / 100) * w for the four weights; Math.round(score)
calculateQualityScore(summary) ==
  LET Term(x, w) == DoubleMul(DoubleDiv(x, 100), w)
  IN Math_round(
       DoubleAdd(DoubleAdd(DoubleAdd(DoubleAdd(DoubleOf(0),
                                               Term(summary.successRate, 40)),
                                     Term(summary.overallCoverage, 30)),
                           Term(summary.branchesCoverage, 20)),
                 Term(summary.functionsCoverage, 10)))

\* the time of the run is kept as the one text "timestamp"
TestReport(a) ==
  [timestamp |-> "timestamp", summary |-> a.summary, details |-> a.details,
   recommendations |-> a.recommendations, quality |-> calculateQualityScore(a.summary)]

\* the Markdown summary: the figures of the report it prints
generateHumanReadableReport(report) ==
  [summary |-> report.summary, quality |-> report.quality,
   recommendations |-> report.recommendations]

TestResultsAnalyzer_generateReport ==
  /\ script = "tests" /\ pc = "report"
  /\ LET report == TestReport(analysis) IN
     \E jsonOk \in BOOLEAN, mdOk \in BOOLEAN :
       /\ outputs' =
            IF ~jsonOk THEN outputs
            ELSE IF ~mdOk
            THEN [outputs EXCEPT !["test-analysis-report.json"] = Written(report)]
            ELSE [outputs EXCEPT
                    !["test-analysis-report.json"] = Written(report),
                    !["test-analysis-summary.md"] =
                       Written(generateHumanReadableReport(report))]
       /\ pc' = IF jsonOk /\ mdOk THEN "complete" ELSE "thrown"
       /\ error' = IF ~jsonOk THEN "cannot write test-analysis-report.json"
                   ELSE IF ~mdOk THEN "cannot write test-analysis-summary.md"
                   ELSE error
  /\ UNCHANGED <<history, call, existing, script, disk, files, idx, reviewResults, styleResults, perfResults,
                 assessment, analysis, lastRead, console, promise, exitCode>>


\* test-analysis-report.json as a run of the analyzer over the given input
\* files leaves it
ProducedTestReport(jf, cf) ==
  LET analysed == analyzeResults([NewAnalysis EXCEPT
                                    !.jestResults = readJestResults(jf),
                                    !.coverage = [coverageSummary |-> readCoverageReport(cf)]])
  IN TestReport([analysed EXCEPT !.recommendations = generateRecommendations(analysed.summary)])
ProducedTestReports ==
  {Json(ProducedTestReport(jf, cf)) : jf \in JestResults, cf \in CoverageSummaries}
(* ---------------------------------------------------------------------- *)
(* MergeReadinessAssessor                                                   *)
(* ---------------------------------------------------------------------- *)
SampleScores == {69, 70, 80, 100}
Entries(n) == [i \in 1..n |-> "entry"]

\* test-analysis-report.json: what the test analyzer writes, or any other
\* content
TestReports ==
  ProducedTestReports \cup {Absent, Malformed, Json(EmptyObject)} \cup
  {Json([summary |-> [successRate |-> sr, overallCoverage |-> cov,
                      failedTests |-> ft, skippedTests |-> sk],
         timestamp |-> "timestamp"]) :
     sr \in SampleScores, cov \in SampleScores,
     ft \in 0..MaxUpstream, sk \in 0..MaxUpstream}
StyleReports ==
  {Absent, Malformed, Json(EmptyObject)} \cup
  {Json([score |-> sc,
         violationsBySeverity |-> [high |-> Entries(h), medium |-> Entries(m),
                                   low |-> <<>>]]) :
     sc \in SampleScores, h \in 0..MaxUpstream, m \in 0..MaxUpstream}
SecurityReports ==
  {Absent, Malformed, Json(EmptyObject)} \cup
  {Json([score |-> sc,
         vulnerabilitiesBySeverity |-> [critical |-> Entries(c), high |-> Entries(h)]]) :
     sc \in SampleScores, c \in 0..MaxUpstream, h \in 0..MaxUpstream}
PerformanceReports ==
  {Absent, Malformed, Json(EmptyObject)} \cup
  {Json([score |-> sc, issuesBySeverity |-> [critical |-> Entries(c)]]) :
     sc \in SampleScores, c \in 0..MaxUpstream}

\* fs.existsSync(name): the contents a read of the report can find
Upstream(reports, name) ==
  IF name \notin OutputNames THEN reports
  ELSE IF outputs[name] = Absent THEN {Absent}
  ELSE reports \ {Absent}

\* the read* methods: existsSync, readFileSync and JSON.parse inside a try
\* whose catch falls through to the defaults
\* a catch that covers only the missing file: a report that does not parse
\* is taken as a passing one
readTestResults_MalformedAsPassing(f) ==
  IF f.state = "json"
  THEN [successRate |-> NumAt(f.json, "summary", "successRate"),
        coverage |-> NumAt(f.json, "summary", "overallCoverage"),
        failedTests |-> NumAt(f.json, "summary", "failedTests"),
        skippedTests |-> NumAt(f.json, "summary", "skippedTests"),
        lastRun |-> IF "timestamp" \in DOMAIN f.json THEN f.json.timestamp
                    ELSE "undefined"]
  ELSE [successRate |-> IF f.state = "malformed" THEN 100 ELSE 0,
        coverage |-> 0, failedTests |-> 0, skippedTests |-> 0, lastRun |-> "null"]
readTestResults(f) ==
  IF f.state = "json"
  THEN [successRate |-> NumAt(f.json, "summary", "successRate"),
        coverage |-> NumAt(f.json, "summary", "overallCoverage"),
        failedTests |-> NumAt(f.json, "summary", "failedTests"),
        skippedTests |-> NumAt(f.json, "summary", "skippedTests"),
        lastRun |-> IF "timestamp" \in DOMAIN f.json THEN f.json.timestamp
                    ELSE "undefined"]
  ELSE [successRate |-> 0, coverage |-> 0, failedTests |-> 0, skippedTests |-> 0,
        lastRun |-> "null"]
readCodeQualityResults(f) ==
  IF f.state = "json"
  THEN [criticalIssues |-> LengthAt(f.json, "violationsBySeverity", "high"),
        highIssues |-> LengthAt(f.json, "violationsBySeverity", "medium"),
        styleScore |-> NumOr0(f.json, "score"),
        lintErrors |-> 0]
  ELSE [criticalIssues |-> 0, highIssues |-> 0, styleScore |-> 0, lintErrors |-> 0]
readSecurityResults(f) ==
  IF f.state = "json"
  THEN [criticalVulnerabilities |-> LengthAt(f.json, "vulnerabilitiesBySeverity", "critical"),
        highVulnerabilities |-> LengthAt(f.json, "vulnerabilitiesBySeverity", "high"),
        securityScore |-> NumOr0(f.json, "score"),
        dependencyIssues |-> 0]
  ELSE [criticalVulnerabilities |-> 0, highVulnerabilities |-> 0,
        securityScore |-> 0, dependencyIssues |-> 0]
\* defaults that assume the best when the report cannot be used
readPerformanceResults_OptimisticDefaults(f) ==
  IF f.state = "json"
  THEN [criticalIssues |-> LengthAt(f.json, "issuesBySeverity", "critical"),
        performanceScore |-> NumOr0(f.json, "score"),
        regressions |-> 0]
  ELSE [criticalIssues |-> 0, performanceScore |-> 100, regressions |-> 0]
readPerformanceResults(f) ==
  IF f.state = "json"
  THEN [criticalIssues |-> LengthAt(f.json, "issuesBySeverity", "critical"),
        performanceScore |-> NumOr0(f.json, "score"),
        regressions |-> 0]
  ELSE [criticalIssues |-> 0, performanceScore |-> 0, regressions |-> 0]
readDocumentationResults ==
  [readmeUpdated |-> TRUE, apiDocsUpdated |-> TRUE, changelogUpdated |-> FALSE,
   breakingChanges |-> 0]
\* a pull request that has its approvals
readApprovalStatus_Approved ==
  [hasRequiredApprovals |-> TRUE, currentApprovals |-> 2, requiredApprovals |-> 2,
   requestedChanges |-> 0, unresolvedDiscussions |-> 0, ciStatus |-> "passed"]
readApprovalStatus ==
  [hasRequiredApprovals |-> FALSE, currentApprovals |-> 0, requiredApprovals |-> 2,
   requestedChanges |-> 0, unresolvedDiscussions |-> 0, ciStatus |-> "passed"]

\* a blocker or warning; its message and action texts feed no decision and
\* are left out
Finding(type, severity) == [type |-> type, severity |-> severity]
WithCheck(checks, name, c) ==
  [k \in DOMAIN checks \cup {name} |-> IF k = name THEN c ELSE checks[k]]

\* checks.recentTests compares lastRun with the clock and feeds no blocker
\* or warning; it is left out of the checks record
MergeReadinessAssessor_checkTestResults ==
  /\ script = "merge" /\ pc = "start"
  /\ \E f \in Upstream(TestReports, "test-analysis-report.json") :
       LET testResults == readTestResults(f)
           checks == [allTestsPassing |-> testResults.successRate = 100,
                      sufficientCoverage |-> testResults.coverage >= 80,
                      noSkippedTests |-> testResults.skippedTests = 0]
       IN /\ lastRead' = [file |-> "test-analysis-report.json", state |-> f.state,
                          content |-> f, result |-> testResults]
          /\ assessment' =
               [assessment EXCEPT
                  !.blockers = @
                     \o Opt(~checks.allTestsPassing,
                            Finding("test-failure", "critical"))
                     \o Opt(~checks.sufficientCoverage,
                            Finding("coverage", "high")),
                  !.warnings = @
                     \o Opt(testResults.skippedTests > 0,
                            Finding("skipped-tests", "low")),
                  !.checks = WithCheck(@, "tests", checks)]
  /\ pc' = "checkCodeQuality"
  /\ UNCHANGED <<history, call, existing, analysis, script, disk, files, idx, reviewResults, styleResults, perfResults,
                 outputs, console, promise, exitCode, error>>

MergeReadinessAssessor_checkCodeQuality ==
  /\ script = "merge" /\ pc = "checkCodeQuality"
  /\ \E f \in Upstream(StyleReports, "code-style-review-results.json") :
       LET quality == readCodeQualityResults(f)
           checks == [noCriticalIssues |-> quality.criticalIssues = 0,
                      noHighIssues |-> quality.highIssues = 0,
                      acceptableStyleScore |-> quality.styleScore >= 70,
                      noLintErrors |-> quality.lintErrors = 0]
       IN /\ lastRead' = [file |-> "code-style-review-results.json", state |-> f.state,
                          result |-> quality]
          /\ assessment' =
               [assessment EXCEPT
                  !.blockers = @
                     \o Opt(~checks.noCriticalIssues,
                            Finding("critical-issues", "critical"))
                     \o Opt(~checks.noHighIssues,
                            Finding("high-issues", "high")),
                  !.warnings = @
                     \o Opt(~checks.acceptableStyleScore,
                            Finding("style-score", "medium")),
                  !.checks = WithCheck(@, "codeQuality", checks)]
  /\ pc' = "checkSecurity"
  /\ UNCHANGED <<history, call, existing, analysis, script, disk, files, idx, reviewResults, styleResults, perfResults,
                 outputs, console, promise, exitCode, error>>

MergeReadinessAssessor_checkSecurity ==
  /\ script = "merge" /\ pc = "checkSecurity"
  /\ \E f \in Upstream(SecurityReports, "security-scan-results.json") :
       LET security == readSecurityResults(f)
           checks == [noCriticalVulns |-> security.criticalVulnerabilities = 0,
                      noHighVulns |-> security.highVulnerabilities = 0,
                      securityScore |-> security.securityScore >= 80,
                      dependenciesSecure |-> security.dependencyIssues = 0]
       IN /\ lastRead' = [file |-> "security-scan-results.json", state |-> f.state,
                          result |-> security]
          /\ assessment' =
               [assessment EXCEPT
                  !.blockers = @
                     \o Opt(~checks.noCriticalVulns,
                            Finding("security-critical", "critical"))
                     \o Opt(~checks.noHighVulns,
                            Finding("security-high", "high")),
                  !.warnings = @
                     \o Opt(~checks.securityScore,
                            Finding("security-score", "high")),
                  !.checks = WithCheck(@, "security", checks)]
  /\ pc' = "checkPerformance"
  /\ UNCHANGED <<history, call, existing, analysis, script, disk, files, idx, reviewResults, styleResults, perfResults,
                 outputs, console, promise, exitCode, error>>

MergeReadinessAssessor_checkPerformance ==
  /\ script = "merge" /\ pc = "checkPerformance"
  /\ \E f \in Upstream(PerformanceReports, "performance-analysis-results.json") :
       LET performance == readPerformanceResults(f)
           checks == [noCriticalPerfIssues |-> performance.criticalIssues = 0,
                      performanceScore |-> performance.performanceScore >= 70,
                      noRegressions |-> performance.regressions = 0]
       IN /\ lastRead' = [file |-> "performance-analysis-results.json", state |-> f.state,
                          result |-> performance]
          /\ assessment' =
               [assessment EXCEPT
                  !.blockers = @
                     \o Opt(~checks.noCriticalPerfIssues,
                            Finding("performance-critical", "high")),
                  !.warnings = @
                     \o Opt(~checks.performanceScore,
                            Finding("performance-score", "medium")),
                  !.checks = WithCheck(@, "performance", checks)]
  /\ pc' = "checkDocumentation"
  /\ UNCHANGED <<history, call, existing, analysis, script, disk, files, idx, reviewResults, styleResults, perfResults,
                 outputs, console, promise, exitCode, error>>

MergeReadinessAssessor_checkDocumentation ==
  /\ script = "merge" /\ pc = "checkDocumentation"
  /\ LET documentation == readDocumentationResults
         checks == [readmeUpdated |-> documentation.readmeUpdated,
                    apiDocsUpdated |-> documentation.apiDocsUpdated,
                    changelogUpdated |-> documentation.changelogUpdated,
                    noBreakingChanges |-> documentation.breakingChanges = 0]
     IN assessment' =
          [assessment EXCEPT
             !.warnings = @ \o Opt(~checks.readmeUpdated, Finding("documentation", "low")),
             !.blockers = @
                \o Opt(documentation.breakingChanges > 0,
                       Finding("breaking-changes", "high")),
             !.checks = WithCheck(@, "documentation", checks)]
  /\ pc' = "checkApprovals"
  /\ UNCHANGED <<history, call, existing, analysis, script, disk, files, idx, reviewResults, styleResults, perfResults,
                 lastRead, outputs, console, promise, exitCode, error>>

MergeReadinessAssessor_checkApprovals ==
  /\ script = "merge" /\ pc = "checkApprovals"
  /\ LET approvals == readApprovalStatus
         checks == [hasRequiredApprovals |-> approvals.hasRequiredApprovals,
                    noRequestedChanges |-> approvals.requestedChanges = 0,
                    discussionsResolved |-> approvals.unresolvedDiscussions = 0,
                    ciPassed |-> approvals.ciStatus = "passed"]
     IN assessment' =
          [assessment EXCEPT
             !.blockers = @
                \o Opt(~checks.hasRequiredApprovals,
                       Finding("approvals", "high"))
                \o Opt(~checks.noRequestedChanges,
                       Finding("requested-changes", "critical"))
                \o Opt(~checks.ciPassed, Finding("ci-failure", "critical")),
             !.warnings = @
                \o Opt(~checks.discussionsResolved,
                       Finding("discussions", "medium")),
             !.checks = WithCheck(@, "approvals", checks)]
  /\ pc' = "calculateReadiness"
  /\ UNCHANGED <<history, call, existing, analysis, script, disk, files, idx, reviewResults, styleResults, perfResults,
                 lastRead, outputs, console, promise, exitCode, error>>

RECURSIVE BlockerDeduct(_, _)
BlockerDeduct(score, blockers) ==
  IF blockers = <<>> THEN score
  ELSE BlockerDeduct(
         CASE Head(blockers).severity = "critical" -> score - 30
           [] Head(blockers).severity = "high" -> score - 20
           [] Head(blockers).severity = "medium" -> score - 10
           [] Head(blockers).severity = "low" -> score - 5
           [] OTHER -> score,
         Tail(blockers))
RECURSIVE WarningDeduct(_, _)
WarningDeduct(score, warnings) ==
  IF warnings = <<>> THEN score
  ELSE WarningDeduct(
         CASE Head(warnings).severity = "high" -> score - 5
           [] Head(warnings).severity = "medium" -> score - 3
           [] Head(warnings).severity = "low" -> score - 1
           [] OTHER -> score,
         Tail(warnings))
\* warnings costing what blockers cost
ReadinessScore_WarningsAsBlockers(blockers, warnings) ==
  Max(0, BlockerDeduct(BlockerDeduct(100, blockers), warnings))
ReadinessScore(blockers, warnings) ==
  Max(0, WarningDeduct(BlockerDeduct(100, blockers), warnings))
\* the verdict taken from the score alone
Ready_ScoreOnly(blockers, score) == score >= 80
Ready(blockers, score) == Len(blockers) = 0 /\ score >= 80

\* assess() calls calculateReadiness after runAllChecks; a caller of the
\* exported class may also call it on an assessor that ran only some checks
ChecksPending == {"start", "checkCodeQuality", "checkSecurity", "checkPerformance",
                  "checkDocumentation", "checkApprovals"}

MergeReadinessAssessor_calculateReadiness ==
  /\ script = "merge" /\ pc \in ChecksPending \cup {"calculateReadiness"}
  /\ LET score == ReadinessScore(assessment.blockers, assessment.warnings)
     IN assessment' = [assessment EXCEPT
                         !.score = score,
                         !.ready = Ready(assessment.blockers, score)]
  /\ pc' = IF pc = "calculateReadiness" THEN "report" ELSE "returned"
  /\ UNCHANGED <<history, call, existing, analysis, script, disk, files, idx, reviewResults, styleResults, perfResults,
                 lastRead, outputs, console, promise, exitCode, error>>

getRecommendation(a) ==
  IF ~a.ready THEN "PR is not ready for merge. Address blockers and warnings."
  ELSE IF Len(a.warnings) > 0
  THEN "PR is ready for merge but consider addressing warnings."
  ELSE "PR is ready for merge!"

MergeReport(a) ==
  LET Critical(b) == b.severity = "critical"
  IN [ready |-> a.ready, score |-> a.score, blockers |-> a.blockers,
      warnings |-> a.warnings, checks |-> a.checks,
      summary |-> [totalBlockers |-> Len(a.blockers),
                   totalWarnings |-> Len(a.warnings),
                   criticalBlockers |-> Len(SelectSeq(a.blockers, Critical)),
                   recommendation |-> getRecommendation(a)]]

\* a write guarded by existsSync: a report that is already there is kept
MergeReadinessAssessor_generateReport_KeepExisting ==
  /\ script = "merge" /\ pc = "report"
  /\ \E jsonOk \in BOOLEAN :
       /\ outputs' =
            IF jsonOk /\ outputs["merge-readiness-results.json"] = Absent
            THEN [outputs EXCEPT
                    !["merge-readiness-results.json"] = Written(MergeReport(assessment))]
            ELSE outputs
       /\ pc' = IF jsonOk THEN "complete" ELSE "thrown"
       /\ error' = IF jsonOk THEN error ELSE "cannot write merge-readiness-results.json"
  /\ UNCHANGED <<history, call, existing, script, disk, files, idx, reviewResults, styleResults, perfResults,
                 analysis, assessment, lastRead, console, promise, exitCode>>
MergeReadinessAssessor_generateReport ==
  /\ script = "merge" /\ pc = "report"
  /\ \E jsonOk \in BOOLEAN :
       /\ outputs' =
            IF jsonOk
            THEN [outputs EXCEPT
                    !["merge-readiness-results.json"] = Written(MergeReport(assessment))]
            ELSE outputs
       /\ pc' = IF jsonOk THEN "complete" ELSE "thrown"
       /\ error' = IF jsonOk THEN error ELSE "cannot write merge-readiness-results.json"
  /\ UNCHANGED <<history, call, existing, analysis, script, disk, files, idx, reviewResults, styleResults, perfResults,
                 assessment, lastRead, console, promise, exitCode>>

Next ==
  \/ AICodeReviewer_performReview
  \/ AICodeReviewer_analyzeFile
  \/ AICodeReviewer_calculateScore
  \/ AICodeReviewer_generateReviewReport
  \/ CodeStyleReviewer_review
  \/ CodeStyleReviewer_reviewFile
  \/ CodeStyleReviewer_calculateScore
  \/ CodeStyleReviewer_generateReport
  \/ PerformanceAnalyzer_analyze
  \/ PerformanceAnalyzer_analyzeFile
  \/ PerformanceAnalyzer_calculateScore
  \/ PerformanceAnalyzer_generateReport
  \/ MergeReadinessAssessor_checkTestResults
  \/ MergeReadinessAssessor_checkCodeQuality
  \/ MergeReadinessAssessor_checkSecurity
  \/ MergeReadinessAssessor_checkPerformance
  \/ MergeReadinessAssessor_checkDocumentation
  \/ MergeReadinessAssessor_checkApprovals
  \/ MergeReadinessAssessor_calculateReadiness
  \/ MergeReadinessAssessor_generateReport
  \/ TestResultsAnalyzer_readTestResults
  \/ TestResultsAnalyzer_analyzeResults
  \/ TestResultsAnalyzer_generateRecommendations
  \/ TestResultsAnalyzer_generateReport
  \/ RunReturn
  \/ RunCatch
  \/ CliCatch

Spec == Init /\ [][Next]_vars


(* ---------------------------------------------------------------------- *)
(* Two scripts at once in one working directory                             *)
(* ---------------------------------------------------------------------- *)
\* a report file written by another script that runs at the same time
Foreign(s) == [state |-> "foreign", by |-> s]

\* another script, started in the same directory, writes one of its report
\* files between two steps of this one; one other script runs, so every
\* foreign file is by the same script
OtherScriptWrites ==
  /\ pc \notin {"exit"}
  /\ \E o \in Scripts \ {script} :
       \E n \in OutputsOf(o) :
         /\ outputs[n] # Foreign(o)
         /\ \A m \in OutputNames : outputs[m].state = "foreign" => outputs[m].by = o
         /\ outputs' = [outputs EXCEPT ![n] = Foreign(o)]
  /\ UNCHANGED <<script, pc, disk, files, idx, reviewResults, styleResults, perfResults,
                 assessment, analysis, lastRead, existing, console, promise, exitCode,
                 error, history, call>>

InitPair == Init /\ existing = {} /\ Len(disk) <= 1
NextPair == Next \/ OtherScriptWrites
SpecPair == InitPair /\ [][NextPair]_vars

(* ---------------------------------------------------------------------- *)
(* File discovery over a directory tree                                     *)
(* ---------------------------------------------------------------------- *)
ExcludedDirs == { <<"n", "o", "d", "e", "_", "m", "o", "d", "u", "l", "e", "s">>, <<".", "g", "i", "t">>, <<"c", "o", "v", "e", "r", "a", "g", "e">>, <<"d", "i", "s", "t">> }

\* the listings of the target directory. An entry is a file, a link whose
\* target is gone (statSync throws on it), or a directory, which readdirSync
\* can list or not; directories nest two deep; the names of one listing
\* are distinct
Trees ==
  LET Leaves ==
        {[kind |-> "file", name |-> n] :
           n \in {SrcName, TestName, DocName, <<"b", ".", "s", "p", "e", "c", ".", "t", "s", "x">>}}
        \cup {[kind |-> "dangling", name |-> <<"a", "-", "l", "i", "n", "k">>]}
      DirNames == ExcludedDirs \cup { <<"l", "i", "b">> }
      InnerDirs ==
        {[kind |-> "dir", name |-> n, listable |-> TRUE, items |-> items] :
           n \in DirNames, items \in {<<>>} \cup {<<l>> : l \in Leaves}}
        \cup {[kind |-> "dir", name |-> n, listable |-> FALSE, items |-> <<>>] :
                n \in DirNames}
      OuterDirs ==
        {[kind |-> "dir", name |-> n, listable |-> TRUE, items |-> <<d>>] :
           n \in DirNames,
           d \in {i \in InnerDirs : i.items = <<[kind |-> "file", name |-> SrcName]>>}}
  IN {t \in UNION {[1..n -> Leaves \cup InnerDirs \cup OuterDirs] : n \in 0..MaxFiles} :
        \A i \in 1..Len(t) : \A j \in 1..Len(t) : i # j => t[i].name # t[j].name}

\* scanDir(dir) as the paths it pushes while it walks the listing `items` of
\* the directory at `path`: the try encloses the whole loop, so the first
\* statSync that throws ends the walk of this directory; the code review
\* (s = "review") tests for a directory first and for the excluded names
\* inside, the other two scripts test both at once
RECURSIVE scanDir(_, _, _)
scanDir(items, path, s) ==
  IF items = <<>> THEN <<>>
  ELSE TheOne({
    IF item.kind = "dangling" THEN <<>>
    ELSE (IF item.kind = "dir" /\ item.name \notin ExcludedDirs
          THEN scanDir(item.items, Append(path, item.name), s)
          ELSE IF item.kind = "dir" /\ s = "review" THEN <<>>
          ELSE IF /\ extname(item.name) \in extensions
                  /\ s = "review" => /\ ~includes(item.name, <<".", "t", "e", "s", "t", ".">>)
                                     /\ ~includes(item.name, <<".", "s", "p", "e", "c", ".">>)
          THEN <<Append(path, item.name)>>
          ELSE <<>>)
         \o scanDir(Tail(items), path, s) : item \in {Head(items)}})

\* findFilesToReview / findFiles: discovery from the target directory
FindFiles ==
  /\ pc = "start"
  /\ files' = scanDir(disk, <<>>, script)
  /\ pc' = "found"
  /\ UNCHANGED <<script, disk, idx, reviewResults, styleResults, perfResults, assessment,
                 analysis, lastRead, existing, outputs, console, promise, exitCode, error,
                 history, call>>

\* every object as constructed and nothing run yet
Idle ==
  /\ files = <<>>
  /\ idx = 0
  /\ reviewResults = [score |-> 0, issues |-> <<>>, suggestions |-> <<>>,
                      positives |-> <<>>, fileAnalysis |-> <<>>]
  /\ styleResults = [score |-> 0, violations |-> <<>>, suggestions |-> <<>>,
                     metrics |-> <<>>]
  /\ perfResults = [score |-> 0, issues |-> <<>>, optimizations |-> <<>>,
                    metrics |-> <<>>]
  /\ assessment = [ready |-> FALSE, score |-> 0, blockers |-> <<>>,
                   warnings |-> <<>>, checks |-> <<>>]
  /\ analysis = NewAnalysis
  /\ lastRead = [file |-> "none"]
  /\ existing = {}
  /\ outputs = [n \in OutputNames |-> Absent]
  /\ console = <<>>
  /\ promise = "pending"
  /\ exitCode = 0
  /\ error = "none"
  /\ history = <<>>
  /\ call = [fn |-> "none"]

InitFind ==
  /\ script \in {"review", "style", "perf"}
  /\ disk \in Trees
  /\ pc = "start"
  /\ Idle
SpecFind == InitFind /\ [][FindFiles]_vars

(* ---------------------------------------------------------------------- *)
(* The sample utilities: add, formatString, validateEmail, Calculator       *)
(* ---------------------------------------------------------------------- *)
MaxCalls == 3
MaxEmailLen == 6

\* JavaScript values by their typeof: numbers (NaN among them), strings,
\* null (typeof 'object'), undefined, a boolean
Number(n) == [type |-> "number", nan |-> FALSE, v |-> n]
JsValues ==
  {Number(n) : n \in {0 - 1, 0, 2}}
  \cup {[type |-> "number", nan |-> TRUE, v |-> 0]}
  \cup {[type |-> "string", v |-> s] : s \in { <<>>, <<"a">>, <<"h", "E", "L", "L", "O", " ", "w", "O", "R", "L", "D">>, <<"5">> }}
  \cup {[type |-> "object", v |-> <<"n", "u", "l", "l">>], [type |-> "undefined", v |-> <<"u", "n", "d", "e", "f", "i", "n", "e", "d">>],
        [type |-> "boolean", v |-> <<"t", "r", "u", "e">>]}
\* the strings given to validateEmail
EmailChars == {"a", "@", ".", " ", "\n"}
EmailStrings == UNION {[1..n -> EmailChars] : n \in 0..MaxEmailLen}

\* the outcome of a call
Return(v) == [threw |-> FALSE, value |-> v]
Throw(message) == [threw |-> TRUE, message |-> message]

\* add guarding its first argument only
add_FirstArgumentOnly(a, b) ==
  IF a.type # "number" THEN Throw("Both arguments must be numbers")
  ELSE IF b.type # "number" THEN Return(a)
  ELSE Return([type |-> "number", nan |-> a.nan \/ b.nan,
               v |-> IF a.nan \/ b.nan THEN 0 ELSE a.v + b.v])
\* a + b on two numbers
add(a, b) ==
  IF a.type # "number" \/ b.type # "number"
  THEN Throw("Both arguments must be numbers")
  ELSE Return([type |-> "number", nan |-> a.nan \/ b.nan,
               v |-> IF a.nan \/ b.nan THEN 0 ELSE a.v + b.v])

\* str.charAt(0).toUpperCase() + str.slice(1).toLowerCase()
formatString(str) ==
  IF str.type # "string" THEN Throw("Argument must be a string")
  ELSE LET lo == <<"a", "b", "c", "d", "e", "f", "g", "h", "i", "j", "k", "l", "m", "n", "o", "p", "q", "r", "s", "t", "u", "v", "w", "x", "y", "z">>
           up == <<"A", "B", "C", "D", "E", "F", "G", "H", "I", "J", "K", "L", "M", "N", "O", "P", "Q", "R", "S", "T", "U", "V", "W", "X", "Y", "Z">>
           toUpperCase(c) == IF \E i \in 1..26 : lo[i] = c
                             THEN up[CHOOSE i \in 1..26 : lo[i] = c] ELSE c
           toLowerCase(c) == IF \E i \in 1..26 : up[i] = c
                             THEN lo[CHOOSE i \in 1..26 : up[i] = c] ELSE c
       IN Return([type |-> "string",
                  v |-> [i \in 1..Len(str.v) |->
                           IF i = 1 THEN toUpperCase(str.v[i]) ELSE toLowerCase(str.v[i])]])

\* String(x): the text a value is turned into where a string is expected
RECURSIVE String(_)
String(x) ==
  IF x.type # "number" THEN x.v
  ELSE IF x.nan THEN <<"N", "a", "N">>
  ELSE IF x.v < 0 THEN <<"-">> \o String(Number(0 - x.v))
  ELSE IF x.v >= 10 THEN String(Number(x.v \div 10)) \o String(Number(x.v % 10))
  ELSE <<<<"0", "1", "2", "3", "4", "5", "6", "7", "8", "9">>[x.v + 1]>>

\* /^[^\s@]+@[^\s@]+\.[^\s@]+$/
emailRegex ==
  << <<Sos, NotPlus(WS \cup {"@"})>> \o Lit(<<"@">>) \o <<NotPlus(WS \cup {"@"})>>
     \o Lit(<<".">>) \o <<NotPlus(WS \cup {"@"}), Eos>> >>
\* the pattern without its two anchors
validateEmail_Unanchored(email) ==
  Return(\E p \in 1..(Len(String(email)) + 1) :
           MatchAt(<< <<NotPlus(WS \cup {"@"})>> \o Lit(<<"@">>) \o <<NotPlus(WS \cup {"@"})>>
                      \o Lit(<<".">>) \o <<NotPlus(WS \cup {"@"})>> >>, 1, String(email), p) # NoMatch)
\* emailRegex.test(email): the argument is turned into a string, and a
\* match may start anywhere
validateEmail(email) ==
  Return(\E p \in 1..(Len(String(email)) + 1) :
           MatchAt(emailRegex, 1, String(email), p) # NoMatch)

\* one call of an exported function; the functions keep no state, so a
\* behaviour holds one call
CallAdd ==
  /\ script = "utils" /\ pc = "start"
  /\ pc' = "called"
  /\ \E a \in JsValues, b \in JsValues :
       call' = [fn |-> "add", args |-> <<a, b>>, outcome |-> add(a, b)]
  /\ UNCHANGED <<script, disk, files, idx, reviewResults, styleResults, perfResults,
                 assessment, analysis, lastRead, existing, outputs, console, promise,
                 exitCode, error, history>>
CallFormatString ==
  /\ script = "utils" /\ pc = "start"
  /\ pc' = "called"
  /\ \E str \in JsValues :
       call' = [fn |-> "formatString", args |-> <<str>>, outcome |-> formatString(str)]
  /\ UNCHANGED <<script, disk, files, idx, reviewResults, styleResults, perfResults,
                 assessment, analysis, lastRead, existing, outputs, console, promise,
                 exitCode, error, history>>
CallValidateEmail ==
  /\ script = "utils" /\ pc = "start"
  /\ pc' = "called"
  /\ \E email \in JsValues \cup {[type |-> "string", v |-> s] : s \in EmailStrings} :
       call' = [fn |-> "validateEmail", args |-> <<email>>,
                outcome |-> validateEmail(email)]
  /\ UNCHANGED <<script, disk, files, idx, reviewResults, styleResults, perfResults,
                 assessment, analysis, lastRead, existing, outputs, console, promise,
                 exitCode, error, history>>

\* the operands of the Calculator calls
CalcOperands == {0 - 1, 2, 5}
Calculator_add ==
  /\ script = "Calculator" /\ Len(history) < MaxCalls
  /\ \E a \in CalcOperands, b \in CalcOperands :
       /\ history' = Append(history, [operation |-> "add", a |-> a, b |-> b,
                                      result |-> a + b])
       /\ call' = [fn |-> "add", args |-> <<a, b>>, outcome |-> Return(a + b)]
  /\ UNCHANGED <<script, pc, disk, files, idx, reviewResults, styleResults, perfResults,
                 assessment, analysis, lastRead, existing, outputs, console, promise,
                 exitCode, error>>
\* subtract pushing the entry of add
Calculator_subtract_RecordsAdd ==
  /\ script = "Calculator" /\ Len(history) < MaxCalls
  /\ \E a \in CalcOperands, b \in CalcOperands :
       /\ history' = Append(history, [operation |-> "add", a |-> a, b |-> b,
                                      result |-> a - b])
       /\ call' = [fn |-> "subtract", args |-> <<a, b>>, outcome |-> Return(a - b)]
  /\ UNCHANGED <<script, pc, disk, files, idx, reviewResults, styleResults, perfResults,
                 assessment, analysis, lastRead, existing, outputs, console, promise,
                 exitCode, error>>
Calculator_subtract ==
  /\ script = "Calculator" /\ Len(history) < MaxCalls
  /\ \E a \in CalcOperands, b \in CalcOperands :
       /\ history' = Append(history, [operation |-> "subtract", a |-> a, b |-> b,
                                      result |-> a - b])
       /\ call' = [fn |-> "subtract", args |-> <<a, b>>, outcome |-> Return(a - b)]
  /\ UNCHANGED <<script, pc, disk, files, idx, reviewResults, styleResults, perfResults,
                 assessment, analysis, lastRead, existing, outputs, console, promise,
                 exitCode, error>>
Calculator_getHistory ==
  /\ script = "Calculator"
  /\ call' = [fn |-> "getHistory", args |-> <<>>, outcome |-> Return(history)]
  /\ UNCHANGED <<script, pc, disk, files, idx, reviewResults, styleResults, perfResults,
                 assessment, analysis, lastRead, existing, outputs, console, promise,
                 exitCode, error, history>>
Calculator_clearHistory ==
  /\ script = "Calculator"
  /\ history' = <<>>
  /\ call' = [fn |-> "clearHistory", args |-> <<>>, outcome |-> Return("undefined")]
  /\ UNCHANGED <<script, pc, disk, files, idx, reviewResults, styleResults, perfResults,
                 assessment, analysis, lastRead, existing, outputs, console, promise,
                 exitCode, error>>

\* a test file that requires the module and calls its functions, or one
\* that constructs a Calculator and calls its methods
InitUtils ==
  /\ script \in {"utils", "Calculator"}
  /\ disk = <<>>
  /\ pc = "start"
  /\ Idle
NextUtils ==
  \/ CallAdd
  \/ CallFormatString
  \/ CallValidateEmail
  \/ Calculator_add
  \/ Calculator_subtract
  \/ Calculator_getHistory
  \/ Calculator_clearHistory
SpecUtils == InitUtils /\ [][NextUtils]_vars
(* ---------------------------------------------------------------------- *)
(* A second call of the run method on the same instance                     *)
(* ---------------------------------------------------------------------- *)
MaxRuns == 2
\* the number of the call in progress or last made on the instance
Runs == IF call.fn = "none" THEN 1 ELSE call.run
\* performReview / review / analyze called again once the previous call has
\* settled: the constructor is not run again, the result object stays
CallAgain ==
  /\ script \in {"review", "style", "perf"} /\ pc = "settled"
  /\ Runs < MaxRuns
  /\ call' = [fn |-> CASE script = "review" -> "performReview"
                       [] script = "style" -> "review"
                       [] script = "perf" -> "analyze",
              run |-> Runs + 1]
  /\ pc' = "start"
  /\ promise' = "pending"
  /\ error' = "none"
  /\ UNCHANGED <<history, existing, analysis, script, disk, files, idx, reviewResults,
                 styleResults, perfResults, assessment, lastRead, outputs, console, exitCode>>
InitRerun == Init /\ existing = {} /\ Len(disk) <= 1
NextRerun == Next \/ CallAgain
SpecRerun == InitRerun /\ [][NextRerun]_vars
(* ---------------------------------------------------------------------- *)
(* AITestGenerator                                                          *)
(* ---------------------------------------------------------------------- *)
srcDir == <<"s", "r", "c">>
testDir == <<"t", "e", "s", "t", "s">>
path_join(dir, item) == dir \o <<"/">> \o item
endsWith(text, s) ==
  Len(text) >= Len(s) /\ SubSeq(text, Len(text) - Len(s) + 1, Len(text)) = s
\* path.basename(p, ext): what follows the last '/', without the ending ext
\* unless that is the whole of it
path_basename(p, ext) ==
  LET slashes == {i \in 1..Len(p) : p[i] = "/"}
      start == IF slashes = {} THEN 1
               ELSE (CHOOSE i \in slashes : \A j \in slashes : j <= i) + 1
      base == SubSeq(p, start, Len(p))
  IN IF endsWith(base, ext) /\ base # ext
     THEN SubSeq(base, 1, Len(base) - Len(ext))
     ELSE base

\* the src directory at the start: not there, or a listing of files, links
\* whose target is gone and directories one deep, the names of one listing
\* distinct
UtilsName == <<"u", "t", "i", "l", "s", ".", "j", "s">>
SourceTrees ==
  LET Names == {UtilsName, <<"i", "n", "d", "e", "x", ".", "j", "s">>, <<"u", "t", "i", "l", "s", ".", "t", "e", "s", "t", ".", "j", "s">>, <<"n", "o", "t", "e", "s", ".", "m", "d">>}
      Leaves == {[kind |-> "file", name |-> n] : n \in Names}
                \cup {[kind |-> "dangling", name |-> <<"a", "-", "l", "i", "n", "k">>]}
      Dirs == {[kind |-> "dir", name |-> n, items |-> items] :
                 n \in { <<"l", "i", "b">>, <<"a", "p", "i">> },
                 items \in {<<>>} \cup {<<l>> : l \in Leaves}}
      Listings ==
        {t \in UNION {[1..n -> Leaves \cup Dirs] : n \in 0..MaxFiles} :
           \A i \in 1..Len(t) : \A j \in 1..Len(t) : i # j => t[i].name # t[j].name}
  IN {[exists |-> FALSE, items |-> <<>>]}
     \cup {[exists |-> TRUE, items |-> t] : t \in Listings}

\* scanDir(dir) of findSourceFiles over the listing `items` of the directory
\* `dir`: the paths pushed, and whether statSync threw, which ends the scan
RECURSIVE AITestGenerator_scanDir(_, _)
AITestGenerator_scanDir(items, dir) ==
  IF items = <<>> THEN [files |-> <<>>, threw |-> FALSE]
  ELSE TheOne({
    IF item.kind = "dangling" THEN [files |-> <<>>, threw |-> TRUE]
    ELSE TheOne({
      IF here.threw THEN here
      ELSE TheOne({[files |-> here.files \o rest.files, threw |-> rest.threw] :
                     rest \in {AITestGenerator_scanDir(Tail(items), dir)}}) :
      here \in {IF item.kind = "dir"
                THEN AITestGenerator_scanDir(item.items, path_join(dir, item.name))
                ELSE IF endsWith(item.name, <<".", "j", "s">>) /\ ~endsWith(item.name, <<".", "t", "e", "s", "t", ".", "j", "s">>)
                THEN [files |-> <<path_join(dir, item.name)>>, threw |-> FALSE]
                ELSE [files |-> <<>>, threw |-> FALSE]}}) :
    item \in {Head(items)}})

\* createSampleCode: src/utils.js is written into the new src directory
createSampleCode == [exists |-> TRUE, items |-> <<[kind |-> "file", name |-> UtilsName]>>]

\* the test file of a source file: tests/<basename without .js>.test.js
testPath(filePath) == path_join(testDir, path_basename(filePath, <<".", "j", "s">>) \o <<".", "t", "e", "s", "t", ".", "j", "s">>)
\* the generated tests name the source file they are for and require it
generateTestContent(filePath) == [testsFor |-> filePath]

\* generateTests up to the loop: the tests directory is made when missing,
\* findSourceFiles makes src with the sample file when missing and scans it;
\* an error thrown here is caught and logged, and the promise resolves
AITestGenerator_generateTests ==
  /\ script = "generate" /\ pc = "start"
  /\ LET src == IF disk.exists THEN disk ELSE createSampleCode
         found == AITestGenerator_scanDir(src.items, srcDir)
     IN /\ existing' = existing \cup {testDir}
        /\ disk' = src
        /\ files' = IF found.threw THEN files ELSE found.files
        /\ idx' = IF found.threw THEN idx ELSE 1
        /\ console' = console
                        \o Opt(~disk.exists, <<"log", "No src directory found. Creating sample structure...">>)
                        \o Opt(~disk.exists, <<"log", "Created sample source code for demonstration">>)
                        \o Opt(found.threw, <<"error", "Error generating tests:">>)
        /\ pc' = IF found.threw THEN "done" ELSE "generate"
        /\ promise' = IF found.threw THEN "resolved" ELSE promise
  /\ UNCHANGED <<script, reviewResults, styleResults, perfResults, assessment, analysis,
                 lastRead, outputs, exitCode, error, history, call>>

\* one turn of the loop: the file is read, its tests are generated and
\* written to the test path, replacing what was there; a read or a write
\* that throws ends the run in the catch of generateTests
AITestGenerator_generateTestsForFile ==
  /\ script = "generate" /\ pc = "generate" /\ idx <= Len(files)
  /\ \E readOk \in BOOLEAN, writeOk \in BOOLEAN :
       LET filePath == files[idx]
           ok == readOk /\ writeOk
       IN /\ outputs' = IF ok
                        THEN [p \in DOMAIN outputs \cup {testPath(filePath)} |->
                                IF p = testPath(filePath)
                                THEN Written(generateTestContent(filePath))
                                ELSE outputs[p]]
                        ELSE outputs
          /\ console' = console
                          \o Opt(readOk, <<"log", "Generating tests for", filePath>>)
                          \o Opt(ok, <<"log", "Generated", path_basename(filePath, <<".", "j", "s">>) \o <<".", "t", "e", "s", "t", ".", "j", "s">>>>)
                          \o Opt(~ok, <<"error", "Error generating tests:">>)
          /\ idx' = IF ok THEN idx + 1 ELSE idx
          /\ pc' = IF ok THEN pc ELSE "done"
          /\ promise' = IF ok THEN promise ELSE "resolved"
  /\ UNCHANGED <<script, disk, files, reviewResults, styleResults, perfResults, assessment,
                 analysis, lastRead, existing, exitCode, error, history, call>>

\* the loop is over: the run logs its completion and the promise resolves
AITestGenerator_complete ==
  /\ script = "generate" /\ pc = "generate" /\ idx > Len(files)
  /\ console' = Append(console, <<"log", "AI Test Generation Complete!">>)
  /\ pc' = "done"
  /\ promise' = "resolved"
  /\ UNCHANGED <<script, disk, files, idx, reviewResults, styleResults, perfResults,
                 assessment, analysis, lastRead, existing, outputs, exitCode, error,
                 history, call>>

InitGenerate ==
  /\ script = "generate"
  /\ disk \in SourceTrees
  /\ pc = "start"
  /\ files = <<>>
  /\ idx = 0
  /\ reviewResults = [score |-> 0, issues |-> <<>>, suggestions |-> <<>>,
                      positives |-> <<>>, fileAnalysis |-> <<>>]
  /\ styleResults = [score |-> 0, violations |-> <<>>, suggestions |-> <<>>,
                     metrics |-> <<>>]
  /\ perfResults = [score |-> 0, issues |-> <<>>, optimizations |-> <<>>,
                    metrics |-> <<>>]
  /\ assessment = [ready |-> FALSE, score |-> 0, blockers |-> <<>>,
                   warnings |-> <<>>, checks |-> <<>>]
  /\ analysis = NewAnalysis
  /\ lastRead = [file |-> "none"]
  /\ existing \in {{}, {testDir}}
  /\ outputs = [p \in {} |-> Absent]
  /\ console = <<>>
  /\ promise = "pending"
  /\ exitCode = 0
  /\ error = "none"
  /\ history = <<>>
  /\ call = [fn |-> "none"]
NextGenerate ==
  \/ AITestGenerator_generateTests
  \/ AITestGenerator_generateTestsForFile
  \/ AITestGenerator_complete
SpecGenerate == InitGenerate /\ [][NextGenerate]_vars

(* ---------------------------------------------------------------------- *)
(* Properties                                                               *)
(* ---------------------------------------------------------------------- *)
\* the three scripts that scan source files
ScanScripts == {"review", "style", "perf"}
AfterScoreSet == {"report", "complete", "thrown", "settled", "exit"}
AfterScore == pc \in AfterScoreSet
IsHigh(i) == i.severity = "high"
IsMedium(i) == i.severity = "medium"
IsLow(i) == i.severity = "low"
IsCritical(i) == i.severity = "critical"
Clamp(x, lo, hi) == IF x < lo THEN lo ELSE IF x > hi THEN hi ELSE x

\* C1: the score stored by calculateScore of the code review, the style
\* review and the performance analysis, and by calculateReadiness, is an
\* integer between 0 and 100 inclusive, whatever findings were collected.
C1_ScoreInRange ==
  /\ reviewResults.score \in 0..100
  /\ styleResults.score \in 0..100
  /\ perfResults.score \in 0..100
  /\ assessment.score \in 0..100
\* a review whose penalties exceed 100 points plus the largest bonus has
\* been scored
C1_Witness ==
  /\ script = "review" /\ pc = "report"
  /\ 100 - 10 * Len(SelectSeq(reviewResults.issues, IsHigh))
         - 5 * Len(SelectSeq(reviewResults.issues, IsMedium)) + 20 < 0
  /\ reviewResults.score = 0

\* C2: after calculateReadiness, ready is true exactly when there is no
\* blocker and the score is at least 80; with a critical blocker ready is
\* false whatever the score.
C2_ReadyIffNoBlockersAndScore ==
  (script = "merge" /\ pc \in {"returned"} \cup AfterScoreSet) =>
    /\ assessment.ready <=> (Len(assessment.blockers) = 0 /\ assessment.score >= 80)
    /\ Len(SelectSeq(assessment.blockers, IsCritical)) > 0 => ~assessment.ready
\* calculateReadiness has produced a ready verdict with warnings present
C2_Witness ==
  /\ script = "merge" /\ pc = "returned"
  /\ assessment.ready /\ Len(assessment.warnings) > 0 /\ assessment.score < 100

\* C3: the code-review score equals
\* clamp(100 - 10*H - 5*M - 2*L + min(2*P, 20), 0, 100) for H, M, L high,
\* medium and low issues and P positives collected over all analysed files;
\* with no issues and no positives the score is exactly 100.
C3_ReviewScoreFormula ==
  (script = "review" /\ AfterScore) =>
    LET H == Len(SelectSeq(reviewResults.issues, IsHigh))
        M == Len(SelectSeq(reviewResults.issues, IsMedium))
        L == Len(SelectSeq(reviewResults.issues, IsLow))
        P == Len(reviewResults.positives)
    IN /\ reviewResults.score = Clamp(100 - 10 * H - 5 * M - 2 * L + Min(2 * P, 20), 0, 100)
       /\ (reviewResults.issues = <<>> /\ reviewResults.positives = <<>>)
            => reviewResults.score = 100
\* a review with high and medium issues and positives has been scored
\* strictly inside the range
C3_Witness ==
  /\ script = "review" /\ pc = "report"
  /\ Len(SelectSeq(reviewResults.issues, IsHigh)) > 0
  /\ Len(SelectSeq(reviewResults.issues, IsMedium)) > 0
  /\ Len(reviewResults.positives) > 0
  /\ reviewResults.score \in 1..99

\* C4: the performance score equals
\* clamp(100 - 15*C - 8*H - 3*M + min(2*O, 15), 0, 100) for C critical, H
\* high, M medium issues and O optimizations; a run whose only finding is
\* one critical issue scores 85.
C4_PerfScoreFormula ==
  (script = "perf" /\ AfterScore) =>
    LET C == Len(SelectSeq(perfResults.issues, IsCritical))
        H == Len(SelectSeq(perfResults.issues, IsHigh))
        M == Len(SelectSeq(perfResults.issues, IsMedium))
        O == Len(perfResults.optimizations)
    IN /\ perfResults.score = Clamp(100 - 15 * C - 8 * H - 3 * M + Min(2 * O, 15), 0, 100)
       /\ (C = 1 /\ Len(perfResults.issues) = 1 /\ O = 0) => perfResults.score = 85
\* a run whose only finding is one critical issue has been scored
C4_Witness ==
  /\ script = "perf" /\ pc = "report"
  /\ Len(perfResults.issues) = 1 /\ IsCritical(perfResults.issues[1])
  /\ perfResults.optimizations = <<>>
  /\ perfResults.score = 85

\* C5: the style score is 100 minus 10/5/2 per high/medium/low violation,
\* plus the modernization bonus min(5 * floor(10 * r), 20) with
\* r = (const + let + arrow) / (const + let + var + functions + 1) taken from
\* the declaration counts of the scanned files, clamped to [0, 100].
C5_StyleScoreWithBonus ==
  (script = "style" /\ AfterScore) =>
    LET H == Len(SelectSeq(styleResults.violations, IsHigh))
        M == Len(SelectSeq(styleResults.violations, IsMedium))
        L == Len(SelectSeq(styleResults.violations, IsLow))
        c == CodeStyleReviewer_calculateOverallMetrics(disk)
        modern == c.totalConst + c.totalLet + c.totalArrowFunctions
        all == c.totalConst + c.totalLet + c.totalVar + c.totalFunctions + 1
        bonus == Min(5 * ((10 * modern) \div all), 20)
    IN styleResults.score = Clamp(100 - 10 * H - 5 * M - 2 * L + bonus, 0, 100)

\* the contents of the discovered files the loop has read so far, in order
ProcessedContents ==
  LET done == SubSeq(files, 1, Min(idx - 1, Len(files)))
      Readable(i) == disk[i].readable
      read == SelectSeq(done, Readable)
  IN [k \in 1..Len(read) |-> disk[read[k]].content]
ReviewRules == securityIssues \o performanceIssues \o codeQuality
StyleRules == ConcatAll([c \in 1..Len(stylePatterns) |-> stylePatterns[c].patterns])
PerfRules == ConcatAll([g \in 1..Len(performancePatterns) |-> performancePatterns[g].patterns])
NewlinesBefore(content, offset) ==
  Cardinality({p \in 1..(offset - 1) : content[p] = "\n"})
\* for each rule in order and each of its occurrences in order, the line of
\* the occurrence's own start offset
OwnLines(content, rules) ==
  ConcatAll([r \in 1..Len(rules) |->
    LET spans == MatchSpans(rules[r].re, content, 1)
    IN [i \in 1..Len(spans) |-> 1 + NewlinesBefore(content, spans[i].s)]])
LinesOf(entries) == [i \in 1..Len(entries) |-> entries[i].line]
OwnLinesOfAll(contents, rules) ==
  ConcatAll([k \in 1..Len(contents) |-> OwnLines(contents[k], rules)])

\* C6: every entry emitted by checkPatterns, checkStylePatterns and
\* checkPerformancePatterns reports the line 1 + the number of newlines
\* before that match's own start offset, for every occurrence of a rule
\* that matches several times in one file.
C6_LineOfOwnOffset ==
  /\ script = "review" =>
       LinesOf(reviewResults.issues) = OwnLinesOfAll(ProcessedContents, ReviewRules)
  /\ script = "style" =>
       LinesOf(styleResults.violations) = OwnLinesOfAll(ProcessedContents, StyleRules)
  /\ script = "perf" =>
       LinesOf(perfResults.issues) = OwnLinesOfAll(ProcessedContents, PerfRules)

\* an entry without its line
ReviewKey(e) == [severity |-> e.severity, message |-> e.message, pattern |-> e.pattern]
StyleKey(e) == [category |-> e.category, severity |-> e.severity, message |-> e.message,
                autoFixable |-> e.autoFixable, code |-> e.code]
PerfKey(e) == [severity |-> e.severity, message |-> e.message, code |-> e.code]
SpanText(content, span) == SubSeq(content, span.s, span.e - 1)
\* one entry per occurrence of each rule, rules in the given order and the
\* occurrences of a rule from first to last
ReviewOccurrences(content) ==
  ConcatAll([r \in 1..Len(ReviewRules) |->
    LET spans == MatchSpans(ReviewRules[r].re, content, 1)
    IN [i \in 1..Len(spans) |-> ReviewKey(ReviewRules[r])]])
StyleOccurrences(content) ==
  ConcatAll([c \in 1..Len(stylePatterns) |->
    ConcatAll([r \in 1..Len(stylePatterns[c].patterns) |->
      LET rule == stylePatterns[c].patterns[r]
          spans == MatchSpans(rule.re, content, 1)
      IN [i \in 1..Len(spans) |->
            [category |-> stylePatterns[c].category, severity |-> rule.severity,
             message |-> rule.message, autoFixable |-> rule.autoFixable,
             code |-> trim(SpanText(content, spans[i]))]]])])
PerfOccurrences(content) ==
  ConcatAll([g \in 1..Len(performancePatterns) |->
    ConcatAll([r \in 1..Len(performancePatterns[g].patterns) |->
      LET rule == performancePatterns[g].patterns[r]
          spans == MatchSpans(rule.re, content, 1)
      IN [i \in 1..Len(spans) |->
            [severity |-> performancePatterns[g].severity, message |-> rule.message,
             code |-> trim(SpanText(content, spans[i]))]]])])
\* two spans sharing at least one character
Overlap(a, b) == a.s < b.e /\ b.s < a.e

\* C7: scanning a file yields exactly one entry per regex occurrence per
\* rule, without deduplication across rules; the entries of one rule are in
\* textual order and the rules in category order, then list order.
C7_OneEntryPerOccurrence ==
  LET contents == ProcessedContents IN
  /\ script = "review" =>
       [i \in 1..Len(reviewResults.issues) |-> ReviewKey(reviewResults.issues[i])]
         = ConcatAll([k \in 1..Len(contents) |-> ReviewOccurrences(contents[k])])
  /\ script = "style" =>
       [i \in 1..Len(styleResults.violations) |-> StyleKey(styleResults.violations[i])]
         = ConcatAll([k \in 1..Len(contents) |-> StyleOccurrences(contents[k])])
  /\ script = "perf" =>
       [i \in 1..Len(perfResults.issues) |-> PerfKey(perfResults.issues[i])]
         = ConcatAll([k \in 1..Len(contents) |-> PerfOccurrences(contents[k])])
\* a file has been scanned in which one rule occurs several times and two
\* different rules flag overlapping spans
C7_Witness ==
  /\ script = "review" /\ pc = "analyze" /\ idx = 2
  /\ Len(ProcessedContents) = 1
  /\ LET content == ProcessedContents[1]
         Spans(r) == MatchSpans(ReviewRules[r].re, content, 1)
     IN /\ \E r \in 1..Len(ReviewRules) : Len(Spans(r)) >= 2
        /\ \E r1, r2 \in 1..Len(ReviewRules) :
             /\ r1 # r2
             /\ \E i \in 1..Len(Spans(r1)), j \in 1..Len(Spans(r2)) :
                  Overlap(Spans(r1)[i], Spans(r2)[j])
  /\ Len(reviewResults.issues) >= 3

\* the discovered files the loop has read so far, in order, without the
\* ones whose read failed
ProcessedFiles ==
  LET done == SubSeq(files, 1, Min(idx - 1, Len(files)))
      Readable(i) == disk[i].readable
      read == SelectSeq(done, Readable)
  IN [k \in 1..Len(read) |-> disk[read[k]]]
ReportName == CASE script = "review" -> "ai-review-results.json"
                [] script = "style" -> "code-style-review-results.json"
                [] script = "perf" -> "performance-analysis-results.json"
                [] OTHER -> "merge-readiness-results.json"
StoredScore == CASE script = "review" -> reviewResults.score
                 [] script = "style" -> styleResults.score
                 [] script = "perf" -> perfResults.score
                 [] OTHER -> assessment.score

\* C8: a discovered file whose read fails contributes nothing to the
\* aggregated lists and file analyses, every other discovered file is
\* analysed as if the failing file were absent, and the run still reaches
\* the score and the report: it never aborts inside the loop, and a run that
\* returned has written its report with the computed score.
C8_UnreadableFileSkipped ==
  LET read == ProcessedFiles
      contents == [k \in 1..Len(read) |-> read[k].content]
  IN
  /\ script = "review" =>
       /\ reviewResults.fileAnalysis = [k \in 1..Len(read) |-> ReviewFileAnalysis(read[k])]
       /\ reviewResults.issues
            = ConcatAll([k \in 1..Len(read) |-> ReviewFileAnalysis(read[k]).issues])
       /\ reviewResults.suggestions
            = ConcatAll([k \in 1..Len(read) |-> ReviewFileAnalysis(read[k]).suggestions])
       /\ reviewResults.positives
            = ConcatAll([k \in 1..Len(read) |-> ReviewFileAnalysis(read[k]).positives])
  /\ script = "style" =>
       /\ styleResults.violations
            = ConcatAll([k \in 1..Len(read) |-> checkStylePatterns(contents[k])])
       /\ styleResults.suggestions
            = ConcatAll([k \in 1..Len(read) |-> StyleSuggestions(contents[k])])
  /\ script = "perf" =>
       /\ perfResults.issues
            = ConcatAll([k \in 1..Len(read) |-> checkPerformancePatterns(contents[k])])
       /\ perfResults.optimizations
            = ConcatAll([k \in 1..Len(read) |-> generateOptimizations(contents[k])])
  /\ (script \in ScanScripts /\ pc \in {"thrown", "complete", "settled", "exit"}) =>
       idx = Len(files) + 1
  /\ (script \in ScanScripts /\ promise = "fulfilled") =>
       /\ outputs[ReportName].state = "written"
       /\ outputs[ReportName].content.score = StoredScore
\* a run over a directory with an unreadable source file and a readable one
\* with findings has returned and written its report
C8_Witness ==
  /\ script = "review" /\ pc = "exit" /\ promise = "fulfilled"
  /\ Len(files) = 2
  /\ ~disk[files[1]].readable /\ disk[files[2]].readable
  /\ Len(reviewResults.fileAnalysis) = 1
  /\ Len(reviewResults.issues) > 0
  /\ outputs["ai-review-results.json"].state = "written"
  /\ outputs["ai-review-results.json"].content.summary.totalFiles = 1

\* the all-zero record of each upstream report
ZeroRecord(file) ==
  CASE file = "test-analysis-report.json" ->
         [successRate |-> 0, coverage |-> 0, failedTests |-> 0, skippedTests |-> 0,
          lastRun |-> "null"]
    [] file = "code-style-review-results.json" ->
         [criticalIssues |-> 0, highIssues |-> 0, styleScore |-> 0, lintErrors |-> 0]
    [] file = "security-scan-results.json" ->
         [criticalVulnerabilities |-> 0, highVulnerabilities |-> 0, securityScore |-> 0,
          dependencyIssues |-> 0]
    [] file = "performance-analysis-results.json" ->
         [criticalIssues |-> 0, performanceScore |-> 0, regressions |-> 0]

\* C9: when an upstream report file is absent the read* function returns the
\* all-zero record (lastRun = null for tests), and the assessment is never
\* aborted by it: only the final write can fail, and an assessment that
\* returned has written merge-readiness-results.json.
C9_AbsentReportGivesZeroRecord ==
  script = "merge" =>
    /\ (lastRead.file # "none" /\ lastRead.state = "absent") =>
         lastRead.result = ZeroRecord(lastRead.file)
    /\ pc = "thrown" => error = "cannot write merge-readiness-results.json"
    /\ promise = "fulfilled" => outputs["merge-readiness-results.json"].state = "written"
\* an assessment whose last upstream report was absent has returned and
\* written its report, the zero record showing in the recorded checks
C9_Witness ==
  /\ script = "merge" /\ pc = "exit" /\ promise = "fulfilled"
  /\ lastRead.file = "performance-analysis-results.json" /\ lastRead.state = "absent"
  /\ lastRead.result.performanceScore = 0
  /\ outputs["merge-readiness-results.json"].state = "written"
  /\ ~outputs["merge-readiness-results.json"].content.ready

\* C10: a top-level error during a run aborts the run, is reported on the
\* console and ends the script invocation with a nonzero outcome, for every
\* script's entry point.
C10_TopLevelErrorNonzeroExit ==
  (pc = "exit" /\ promise = "rejected") =>
    /\ \E i \in 1..Len(console) : console[i] = <<"error in run", error>>
    /\ exitCode # 0


\* the step that follows the read of each upstream report
StepAfterRead(file) ==
  CASE file = "test-analysis-report.json" -> "checkCodeQuality"
    [] file = "code-style-review-results.json" -> "checkSecurity"
    [] file = "security-scan-results.json" -> "checkPerformance"
    [] file = "performance-analysis-results.json" -> "checkDocumentation"
    [] file = "test-results.json" -> "analyzeResults"
MalformedRead == lastRead.file # "none" /\ lastRead.state = "malformed"

\* C11 (as stated): once an upstream report that exists but does not parse
\* has been read, the run is on its error path: the error is thrown out of
\* the run method and the promise of the run is rejected.
C11_MalformedReportTerminatesRun ==
  MalformedRead =>
    \/ pc = "thrown"
    \/ pc \in {"settled", "exit"} /\ promise = "rejected"

\* C11 (amended): the step that reads an upstream report which does not
\* parse catches the error: the merge-readiness read* method returns its
\* all-zero record and the assessment goes on to its next check; the test
\* analyzer's readJestResults logs a warning, leaves the Jest results unset
\* and the analysis goes on (it is thrown off only by an unreadable XML
\* result file, never by the JSON).
C11_MalformedReportReplacedByDefaults ==
  [][(lastRead' # lastRead /\ lastRead'.state = "malformed") =>
       IF script = "merge"
       THEN /\ lastRead'.result = ZeroRecord(lastRead'.file)
            /\ pc' = StepAfterRead(lastRead'.file)
            /\ error' = "none"
       ELSE /\ analysis'.jestResults = Unset
            /\ <<"warn", "Could not read Jest results">> \in
                 {console'[i] : i \in 1..Len(console')}
            /\ \/ pc' = StepAfterRead(lastRead'.file) /\ error' = "none"
               \/ pc' = "thrown" /\ error' = "cannot read test result file"]_vars
\* an assessment has read a test-analysis-report.json that does not parse,
\* got the zero record for it and stands before its next check
C11_Witness ==
  /\ script = "merge" /\ pc = "checkCodeQuality"
  /\ lastRead.file = "test-analysis-report.json" /\ lastRead.state = "malformed"
  /\ lastRead.result.successRate = 0
  /\ Len(assessment.blockers) = 2

\* the order of the positions of a scan run
StepOrder ==
  { <<"start", "analyze">>, <<"analyze", "report">>, <<"report", "complete">>,
    <<"report", "thrown">>, <<"complete", "settled">>, <<"thrown", "settled">>,
    <<"settled", "exit">> }
Discovered == IF script = "review" THEN AICodeReviewer_findFilesToReview(disk)
              ELSE findFiles(disk)
NoOutputYet == \A n \in OutputNames : outputs[n].state # "written"

\* what holds at each position of a scan run
ScanPositions ==
  script \in ScanScripts =>
    /\ pc = "start" => idx = 0 /\ files = <<>> /\ NoOutputYet
    /\ pc # "start" => files = Discovered
    /\ pc = "analyze" => idx \in 1..(Len(files) + 1) /\ NoOutputYet /\ StoredScore = 0
    /\ pc = "report" => idx = Len(files) + 1 /\ NoOutputYet
    /\ (script = "review" /\ pc # "start") =>
         [k \in 1..Len(reviewResults.fileAnalysis) |-> reviewResults.fileAnalysis[k].file]
           = [k \in 1..Len(ProcessedFiles) |-> ProcessedFiles[k].name]
    /\ outputs[ReportName].state = "written" =>
         /\ idx = Len(files) + 1
         /\ outputs[ReportName].content.score = StoredScore
    /\ promise = "fulfilled" => outputs[ReportName].state = "written"
\* what one step of a scan run may change
ScanStep ==
  script \in ScanScripts =>
    /\ pc' # pc => <<pc, pc'>> \in StepOrder
    /\ files' # files => pc = "start"
    /\ idx' # idx => \/ pc = "start" /\ idx' = 1
                     \/ pc = "analyze" /\ pc' = "analyze" /\ idx <= Len(files)
                        /\ idx' = idx + 1
    /\ StoredScore' # StoredScore => pc = "analyze" /\ pc' = "report"
    /\ outputs' # outputs => pc = "report"

\* C13: in a scan run (code review, style review, performance analysis) the
\* steps come in the order discover, analyse, score, report: the file list
\* is set once, by discovery, before any file is analysed; the loop takes
\* the discovered files one at a time in list order, each once; the score is
\* stored once, after the last file; the report files are written in one
\* step only, after the score, and a run that returned has written a report
\* that holds the stored score.
C13_DiscoverAnalyseScoreReport == []ScanPositions /\ [][ScanStep]_vars
\* a style review of two readable files has returned: both were analysed,
\* some violation lowered the score, and the written report holds that score
C13_Witness ==
  /\ script = "style" /\ pc = "exit" /\ promise = "fulfilled"
  /\ Len(files) = 2 /\ idx = 3
  /\ disk[files[1]].readable /\ disk[files[2]].readable
  /\ styleResults.score < 100
  /\ outputs["code-style-review-results.json"].state = "written"
  /\ outputs["code-style-review-results.json"].content.score = styleResults.score

Elements(s) == {s[i] : i \in 1..Len(s)}
ReviewReportWritten == outputs["ai-review-results.json"].state = "written"
PerfReportWritten == outputs["performance-analysis-results.json"].state = "written"

\* C14: a written code-review report lists the recommendation 'Code quality
\* below threshold' exactly when its score is below 70 and 'Address
\* high-severity security issues' exactly when its high group is not empty;
\* a written performance report lists 'Address critical performance issues'
\* exactly when its critical group is not empty and 'Overall performance
\* score low' exactly when its score is below 70.
C14_RecommendationsFollowThresholds ==
  /\ ReviewReportWritten =>
       LET report == outputs["ai-review-results.json"].content IN
       /\ ("Code quality below threshold - focus on critical issues first"
             \in Elements(report.recommendations))
            <=> (report.score < 70)
       /\ ("Address high-severity security issues immediately"
             \in Elements(report.recommendations))
            <=> (Len(SelectSeq(reviewResults.issues, IsHigh)) >= 1)
  /\ PerfReportWritten =>
       LET report == outputs["performance-analysis-results.json"].content IN
       /\ ("Address critical performance issues immediately - they impact user experience"
             \in Elements(report.recommendations))
            <=> (Len(SelectSeq(perfResults.issues, IsCritical)) >= 1)
       /\ ("Overall performance score low - focus on critical and high-priority issues"
             \in Elements(report.recommendations))
            <=> (report.score < 70)
\* a code-review report with one to five high issues and a score of 70 or
\* more has been written: it lists the high-severity recommendation and not
\* the threshold one
C14_Witness ==
  /\ ReviewReportWritten
  /\ Len(SelectSeq(reviewResults.issues, IsHigh)) \in 1..5
  /\ outputs["ai-review-results.json"].content.score >= 70
  /\ outputs["ai-review-results.json"].content.recommendations
       = <<"Address high-severity security issues immediately">>

\* what a run of the script writes into each of its report files
ThisRun(n) ==
  CASE n = "ai-review-results.json" -> ReviewReport(reviewResults)
    [] n = "ai-review-summary.md" -> generatePRSummary(ReviewReport(reviewResults))
    [] n = "code-style-review-results.json" ->
         StyleReport([styleResults EXCEPT !.metrics = <<>>])
    [] n = "style-guide-suggestions.json" -> "style guide"
    [] n = "performance-analysis-results.json" -> PerfReport(perfResults)
    [] n = "merge-readiness-results.json" -> MergeReport(assessment)
    [] n = "test-analysis-report.json" -> TestReport(analysis)
    [] n = "test-analysis-summary.md" -> generateHumanReadableReport(TestReport(analysis))

\* C15: after a run that returned, each report file of the script holds the
\* report of this run and nothing else, whether or not the file was there at
\* the start; the report files of the other scripts are as they were found.
C15_ReportReplacesPrior ==
  promise = "fulfilled" =>
    \A n \in OutputNames :
      IF n \in OutputsOf(script)
      THEN outputs[n] = [state |-> "written", content |-> ThisRun(n)]
      ELSE outputs[n] = IF n \in existing THEN Prior ELSE Absent
\* an assessment that found its own earlier report and an earlier
\* performance report has returned: its report file holds the new
\* assessment, the performance report is as found
C15_Witness ==
  /\ script = "merge" /\ pc = "exit" /\ promise = "fulfilled"
  /\ {"merge-readiness-results.json", "performance-analysis-results.json"} \subseteq existing
  /\ outputs["merge-readiness-results.json"].state = "written"
  /\ outputs["merge-readiness-results.json"].content.score = assessment.score
  /\ outputs["performance-analysis-results.json"] = Prior

\* the report files as one script leaves them while another one runs
OwnFilesOnly ==
  /\ \A s \in Scripts : \A t \in Scripts \ {s} : OutputsOf(s) \cap OutputsOf(t) = {}
  /\ \A n \in OutputNames :
       /\ outputs[n].state = "written" => n \in OutputsOf(script)
       /\ outputs[n].state = "foreign" => n \notin OutputsOf(script)
  /\ promise = "fulfilled" =>
       \A n \in OutputsOf(script) : outputs[n] = [state |-> "written", content |-> ThisRun(n)]
\* no step replaces a file the other script has written
ForeignKept ==
  \A n \in OutputNames : outputs[n].state = "foreign" => outputs'[n] = outputs[n]

\* C16: the report file names of the code review, the style review, the
\* performance analysis, the test analysis and the merge-readiness
\* assessment are pairwise disjoint; when two different scripts run at once
\* in one directory, in any interleaving of their steps, a file written by
\* one is never written by the other, and a script that returned finds each
\* of its report files holding its own report.
C16_DisjointOutputs == []OwnFilesOnly /\ [][ForeignKept]_vars
\* a code review has returned with both of its files written while the
\* style review, running at the same time, wrote its two files
C16_Witness ==
  /\ script = "review" /\ pc = "exit" /\ promise = "fulfilled"
  /\ outputs["ai-review-results.json"].state = "written"
  /\ outputs["ai-review-summary.md"].state = "written"
  /\ outputs["code-style-review-results.json"] = [state |-> "foreign", by |-> "style"]
  /\ outputs["style-guide-suggestions.json"] = [state |-> "foreign", by |-> "style"]

\* the paths below the listing `items` of the directory at `path` that the
\* discovery of script s is to return: files with one of the four
\* extensions, in directories that can be listed, under no directory named
\* node_modules, .git, coverage or dist; for the code review, without the
\* names that contain .test. or .spec.
RECURSIVE Wanted(_, _, _)
Wanted(items, path, s) ==
  UNION {
    IF item.kind = "file"
    THEN IF /\ extname(item.name) \in extensions
            /\ s = "review" => /\ ~includes(item.name, <<".", "t", "e", "s", "t", ".">>)
                               /\ ~includes(item.name, <<".", "s", "p", "e", "c", ".">>)
         THEN {Append(path, item.name)} ELSE {}
    ELSE IF /\ item.kind = "dir" /\ item.listable
            /\ item.name \notin { <<"n", "o", "d", "e", "_", "m", "o", "d", "u", "l", "e", "s">>, <<".", "g", "i", "t">>, <<"c", "o", "v", "e", "r", "a", "g", "e">>, <<"d", "i", "s", "t">> }
    THEN Wanted(item.items, Append(path, item.name), s)
    ELSE {} : item \in Elements(items)}

\* C17: discovery returns exactly the wanted files of the target subtree,
\* each once: a file is returned iff it has one of the extensions .js, .jsx,
\* .ts, .tsx and lies under no directory named node_modules, .git, coverage
\* or dist (and, for the code review, its name holds neither .test. nor
\* .spec.); a directory that cannot be listed takes nothing away from its
\* siblings.
C17_DiscoveryReturnsWantedFiles ==
  pc = "found" =>
    /\ Elements(files) = Wanted(disk, <<>>, script)
    /\ Cardinality(Elements(files)) = Len(files)

(* ---------------------------------------------------------------------- *)
(* The sample utilities                                                     *)
(* ---------------------------------------------------------------------- *)
\* what an entry of the history records: the operation, both operands and
\* the result of the operation on them
EntryOf(e) ==
  /\ DOMAIN e = {"operation", "a", "b", "result"}
  /\ e.operation \in {"add", "subtract"}
  /\ e.result = IF e.operation = "add" THEN e.a + e.b ELSE e.a - e.b
HistoryEntries == \A i \in 1..Len(history) : EntryOf(history[i])
\* a step of a Calculator: an add or subtract call puts exactly one entry,
\* its own, after the entries there were; clearHistory leaves none;
\* getHistory returns the entries and leaves them
CalculatorStep ==
  script = "Calculator" =>
    \/ /\ call'.fn \in {"add", "subtract"}
       /\ history' = Append(history, [operation |-> call'.fn, a |-> call'.args[1],
                                      b |-> call'.args[2],
                                      result |-> call'.outcome.value])
    \/ /\ call'.fn = "clearHistory"
       /\ Len(history') = 0
    \/ /\ call'.fn = "getHistory"
       /\ history' = history
       /\ call'.outcome = Return(history)
\* C18: the history of a Calculator holds one entry per add or subtract call
\* since construction or the last clearHistory, in call order, each with the
\* operation name, both operands and the result; clearHistory empties it
\* whatever its length
C18_HistoryRecordsEveryCall == []HistoryEntries /\ [][CalculatorStep]_vars
\* add(2, 5), subtract(5, 2), then getHistory()
C18_Witness ==
  /\ script = "Calculator"
  /\ call.fn = "getHistory"
  /\ call.outcome.value =
       <<[operation |-> "add", a |-> 2, b |-> 5, result |-> 7],
         [operation |-> "subtract", a |-> 5, b |-> 2, result |-> 3]>>
  /\ history = call.outcome.value

\* the shape the claim describes: no whitespace, exactly one '@' that is not
\* the first character, and a '.' after it that is neither the first nor the
\* last character of what follows the '@'
WellFormedEmail(s) ==
  /\ \A i \in 1..Len(s) : s[i] \notin WS
  /\ Cardinality({i \in 1..Len(s) : s[i] = "@"}) = 1
  /\ \E at \in 2..Len(s) :
       /\ s[at] = "@"
       /\ \E dot \in (at + 2)..(Len(s) - 1) : s[dot] = "."
ValidateEmailCalled ==
  /\ script = "utils"
  /\ call.fn = "validateEmail"
  /\ call.args[1].type = "string"
\* C19: validateEmail(s) is true exactly for the strings without whitespace,
\* with one '@' after a non-empty local part, and with a '.' inside the part
\* after the '@'
C19_ValidateEmailIffWellFormed ==
  ValidateEmailCalled =>
    /\ ~call.outcome.threw
    /\ call.outcome.value = WellFormedEmail(call.args[1].v)
\* validateEmail("a@a.a") === true
C19_Witness ==
  /\ ValidateEmailCalled
  /\ call.args[1].v = <<"a", "@", "a", ".", "a">>
  /\ call.outcome = Return(TRUE)

\* C20: add throws when either argument is not of type number, null
\* included, and returns the sum otherwise; formatString throws when its
\* argument is not a string
C20_TypeGuardsThrow ==
  script = "utils" =>
    /\ call.fn = "add" =>
         IF call.args[1].type = "number" /\ call.args[2].type = "number"
         THEN /\ ~call.outcome.threw
              /\ call.outcome.value.type = "number"
              /\ IF call.args[1].nan \/ call.args[2].nan
                 THEN call.outcome.value.nan
                 ELSE /\ ~call.outcome.value.nan
                      /\ call.outcome.value.v = call.args[1].v + call.args[2].v
         ELSE call.outcome.threw
    /\ call.fn = "formatString" /\ call.args[1].type # "string" => call.outcome.threw
\* add(2, null) throws
C20_Witness ==
  /\ script = "utils"
  /\ call.fn = "add"
  /\ call.args = <<Number(2), [type |-> "object", v |-> <<"n", "u", "l", "l">>]>>
  /\ call.outcome = Throw("Both arguments must be numbers")

(* ---------------------------------------------------------------------- *)
(* Merge readiness: the score and the verdict                               *)
(* ---------------------------------------------------------------------- *)
CountSeverity(findings, severity) ==
  Cardinality({i \in 1..Len(findings) : findings[i].severity = severity})
MergeScored == script = "merge" /\ pc \in {"returned"} \cup AfterScoreSet
\* C21: the merge-readiness score is
\* max(0, 100 - 30*Bc - 20*Bh - 10*Bm - 5*Bl - 5*Wh - 3*Wm - 1*Wl) for the
\* blockers counted by severity (critical, high, medium, low) and the
\* warnings counted by severity (high, medium, low)
C21_ReadinessScoreFormula ==
  MergeScored =>
    assessment.score =
      Max(0, 100 - 30 * CountSeverity(assessment.blockers, "critical")
                 - 20 * CountSeverity(assessment.blockers, "high")
                 - 10 * CountSeverity(assessment.blockers, "medium")
                 - 5 * CountSeverity(assessment.blockers, "low")
                 - 5 * CountSeverity(assessment.warnings, "high")
                 - 3 * CountSeverity(assessment.warnings, "medium")
                 - 1 * CountSeverity(assessment.warnings, "low"))
\* a scored assessment with blockers of two severities and warnings of two
C21_Witness ==
  /\ MergeScored
  /\ CountSeverity(assessment.blockers, "critical") > 0
  /\ CountSeverity(assessment.blockers, "high") > 0
  /\ CountSeverity(assessment.warnings, "medium") > 0
  /\ CountSeverity(assessment.warnings, "low") > 0
  /\ assessment.score > 0

\* assess() has run all its checks and calculateReadiness
Assessed == script = "merge" /\ pc \in AfterScoreSet
\* C22: whatever the upstream report files hold (present, missing or
\* malformed), assess() ends with ready false: checkApprovals has added an
\* 'approvals' blocker from the hard-coded approval status
C22_AssessNeverReady ==
  Assessed =>
    /\ ~assessment.ready
    /\ \E i \in 1..Len(assessment.blockers) : assessment.blockers[i].type = "approvals"
    /\ outputs["merge-readiness-results.json"].state = "written" =>
         ~outputs["merge-readiness-results.json"].content.ready
\* an assessment whose only blocker is the approvals blocker, its score at
\* the threshold, has ended not ready
C22_Witness ==
  /\ Assessed /\ pc = "exit" /\ promise = "fulfilled"
  /\ assessment.blockers = <<[type |-> "approvals", severity |-> "high"]>>
  /\ assessment.score >= 70
  /\ ~assessment.ready

(* ---------------------------------------------------------------------- *)
(* The test analyzer and its report                                         *)
(* ---------------------------------------------------------------------- *)
\* checkTestResults has just read a report the test analyzer produced
ReadProducedTestReport ==
  /\ script = "merge" /\ pc = "checkCodeQuality"
  /\ lastRead.file = "test-analysis-report.json"
  /\ lastRead.content \in ProducedTestReports
\* C23: when merge readiness reads a test-analysis report produced by the
\* test analyzer whose summary counts at least one failed test,
\* checkTestResults adds a 'test-failure' blocker
C23_FailedTestsBlockMerge ==
  (ReadProducedTestReport /\ lastRead.content.json.summary.failedTests > 0) =>
    \E i \in 1..Len(assessment.blockers) : assessment.blockers[i].type = "test-failure"

(* ---------------------------------------------------------------------- *)
(* Style review: the modernization recommendation                           *)
(* ---------------------------------------------------------------------- *)
StyleReportWritten ==
  /\ script = "style" /\ pc \in {"complete", "settled", "exit"}
  /\ outputs["code-style-review-results.json"].state = "written"
Modernize(rec) ==
  rec.message = "Consider modernizing code with ES6+ features (const/let, arrow functions)"
\* C24: a style review that found at least one violation reports the
\* 'Consider modernizing code' recommendation exactly when the ratio
\* (const + let + arrow functions) / (const + let + var + functions + 1) of
\* the scanned files is below 0.5
C24_ModernizeIffRatioBelowHalf ==
  (StyleReportWritten /\ outputs["code-style-review-results.json"].content.totalViolations > 0) =>
    (Len(SelectSeq(outputs["code-style-review-results.json"].content.recommendations,
                   Modernize)) > 0
       <=> Below(styleResults.metrics.modernizationScore, 1, 2))

(* ---------------------------------------------------------------------- *)
(* Repeated calls on one instance                                           *)
(* ---------------------------------------------------------------------- *)
RECURSIVE Times(_, _)
Times(k, s) == IF k = 0 THEN <<>> ELSE s \o Times(k - 1, s)
\* what one call over the files collects
IssuesOfOneRun ==
  ConcatAll([k \in 1..Len(files) |->
               IF ~disk[files[k]].readable THEN <<>>
               ELSE CASE script = "review" -> ReviewFileAnalysis(disk[files[k]]).issues
                      [] script = "style" -> checkStylePatterns(disk[files[k]].content)
                      [] script = "perf" -> checkPerformancePatterns(disk[files[k]].content)])
\* C25: the result lists are not reset between calls on one instance: once
\* the k-th call of performReview, review or analyze over unchanged files has
\* computed its score, the issue list holds the issues of one call k times
\* over, and the score is the one of that accumulated list
C25_ListsAccumulateOverCalls ==
  (script \in ScanScripts /\ AfterScore) =>
    LET issues == CASE script = "review" -> reviewResults.issues
                    [] script = "style" -> styleResults.violations
                    [] script = "perf" -> perfResults.issues
        C == Len(SelectSeq(issues, IsCritical))
        H == Len(SelectSeq(issues, IsHigh))
        M == Len(SelectSeq(issues, IsMedium))
        L == Len(SelectSeq(issues, IsLow))
    IN /\ issues = Times(Runs, IssuesOfOneRun)
       /\ CASE script = "review" ->
                 reviewResults.score =
                   Clamp(100 - 10 * H - 5 * M - 2 * L
                         + Min(2 * Len(reviewResults.positives), 20), 0, 100)
            [] script = "style" ->
                 styleResults.score = Clamp(100 - 10 * H - 5 * M - 2 * L, 0, 100)
            [] script = "perf" ->
                 perfResults.score =
                   Clamp(100 - 15 * C - 8 * H - 3 * M
                         + Min(2 * Len(perfResults.optimizations), 15), 0, 100)
\* the second call of performReview has scored twice the issues of one call
C25_Witness ==
  /\ script = "review" /\ pc = "settled" /\ Runs = 2
  /\ Len(IssuesOfOneRun) > 0
  /\ Len(reviewResults.issues) = 2 * Len(IssuesOfOneRun)
  /\ reviewResults.score < 100

(* ---------------------------------------------------------------------- *)
(* The severity groups of a report                                          *)
(* ---------------------------------------------------------------------- *)
RECURSIVE IsSubsequence(_, _)
IsSubsequence(s, t) ==
  IF s = <<>> THEN TRUE
  ELSE IF t = <<>> THEN FALSE
  ELSE IF Head(s) = Head(t) THEN IsSubsequence(Tail(s), Tail(t))
  ELSE IsSubsequence(s, Tail(t))
\* every group holds findings of its own severity only, in the order they
\* have in the list, and the groups together are as many as the list and as
\* the reported total
GroupsPartition(findings, groups, total) ==
  /\ \A g \in DOMAIN groups :
       /\ \A i \in 1..Len(groups[g]) : groups[g][i].severity = g
       /\ IsSubsequence(groups[g], findings)
  /\ Cardinality({p \in (DOMAIN groups) \X (1..Len(findings)) : p[2] <= Len(groups[p[1]])})
       = Len(findings)
  /\ total = Len(findings)
StyleReportFile == outputs["code-style-review-results.json"]
\* C26: in every report the severity groups partition the findings: each
\* issue or violation is in exactly one group, the groups keep the original
\* order, their sizes add up to the reported total, and the style report's
\* autoFixableViolations is at most its totalViolations
C26_SeverityGroupsPartition ==
  /\ (script = "review" /\ ReviewReportWritten) =>
       GroupsPartition(reviewResults.issues,
                       outputs["ai-review-results.json"].content.issuesBySeverity,
                       outputs["ai-review-results.json"].content.summary.totalIssues)
  /\ (script = "perf" /\ PerfReportWritten) =>
       GroupsPartition(perfResults.issues,
                       outputs["performance-analysis-results.json"].content.issuesBySeverity,
                       outputs["performance-analysis-results.json"].content.totalIssues)
  /\ (script = "style" /\ StyleReportFile.state = "written") =>
       /\ GroupsPartition(styleResults.violations,
                          StyleReportFile.content.violationsBySeverity,
                          StyleReportFile.content.totalViolations)
       /\ StyleReportFile.content.autoFixableViolations
            <= StyleReportFile.content.totalViolations
\* a code-review report with two groups filled, one of them with two issues
C26_Witness ==
  /\ script = "review" /\ ReviewReportWritten
  /\ Len(outputs["ai-review-results.json"].content.issuesBySeverity.low) >= 2
  /\ outputs["ai-review-results.json"].content.issuesBySeverity.low[1]
       # outputs["ai-review-results.json"].content.issuesBySeverity.low[2]
  /\ Len(outputs["ai-review-results.json"].content.issuesBySeverity.medium) >= 1

(* ---------------------------------------------------------------------- *)
(* The figures of the test analyzer                                         *)
(* ---------------------------------------------------------------------- *)
\* analyzeResults has filled the summary; generateRecommendations has run
TestsAnalysed == script = "tests" /\ analysis.summary # EmptyObject
TestsRecommended == script = "tests" /\ pc \in {"report", "complete"}
NoTests ==
  analysis.jestResults.state = "unset" \/ analysis.summary.totalTests = 0
TestFields ==
  {"totalTests", "passedTests", "failedTests", "skippedTests", "successRate", "failureRate"}
RatesAndCounts ==
  /\ TestsAnalysed =>
       /\ analysis.summary.successRate \in 0..100
       /\ analysis.summary.failureRate \in 0..100
       /\ analysis.summary.passedTests + analysis.summary.failedTests
            + analysis.summary.skippedTests <= analysis.summary.totalTests
  /\ TestsRecommended =>
       ((\E i \in 1..Len(analysis.recommendations) :
           analysis.recommendations[i] = [priority |-> "critical", type |-> "failed-tests"])
        <=> analysis.summary.failedTests > 0)
\* C27 as stated: the rates are integers in [0, 100], passed + failed +
\* skipped is at most the total, the 'failed-tests' critical recommendation
\* is there exactly when failedTests > 0, and without tests or without a Jest
\* results file every field of the summary is 0
C27_EverySummaryFieldZero ==
  /\ RatesAndCounts
  /\ (TestsAnalysed /\ NoTests) =>
       \A f \in DOMAIN analysis.summary : analysis.summary[f] = 0
\* C27 amended: as above, but without tests or without a Jest results file
\* it is the six test fields of the summary that are 0; the coverage fields
\* are those of the coverage report
C27_TestFieldsZero ==
  /\ RatesAndCounts
  /\ (TestsAnalysed /\ NoTests) =>
       /\ \A f \in TestFields : analysis.summary[f] = 0
       /\ analysis.summary.overallCoverage =
            (IF "coverage" \in DOMAIN analysis.details
             THEN analysis.details.coverage.overall ELSE 0)
\* no Jest results file, a coverage report of 65 percent: the recommendations
\* are made, none for failed tests
C27_Witness ==
  /\ TestsRecommended
  /\ analysis.jestResults.state = "unset"
  /\ analysis.summary.successRate = 0 /\ analysis.summary.totalTests = 0
  /\ analysis.summary.overallCoverage = 65
  /\ \A i \in 1..Len(analysis.recommendations) :
       analysis.recommendations[i].type # "failed-tests"

(* ---------------------------------------------------------------------- *)
(* The quality score of the test report                                    *)
(* ---------------------------------------------------------------------- *)
TestReportFile == outputs["test-analysis-report.json"]
TestReportWritten == script = "tests" /\ TestReportFile.state = "written"
\* 40 * successRate + 30 * overallCoverage + 20 * branchesCoverage
\* + 10 * functionsCoverage of a summary, a hundred times the weighted mean
WeightedSum(summary) ==
  40 * summary.successRate + 30 * summary.overallCoverage
  + 20 * summary.branchesCoverage + 10 * summary.functionsCoverage
Inputs(summary) ==
  {summary.successRate, summary.overallCoverage,
   summary.branchesCoverage, summary.functionsCoverage}
\* C28 as stated: the quality score of the report is the weighted sum over
\* 100 rounded to the nearest integer, a half going up; it lies in [0, 100],
\* is 0 when the four inputs are 0 and is 100 only when the four are 100
C28_QualityIsRoundedWeightedSum ==
  TestReportWritten =>
    LET summary == TestReportFile.content.summary
        quality == TestReportFile.content.quality
    IN /\ Inputs(summary) \subseteq 0..100
       /\ quality = (WeightedSum(summary) + 50) \div 100
       /\ quality \in 0..100
       /\ Inputs(summary) = {0} => quality = 0
       /\ quality = 100 => Inputs(summary) = {100}
\* C28 amended: the quality score is within a half of the weighted sum over
\* 100, and where the weighted sum over 100 is not an integer plus a half it
\* is that value rounded to the nearest integer; it lies in [0, 100], is 0
\* when the four inputs are 0, is 100 when the four are 100, and is 100 only
\* when the weighted sum is at least 9950
C28_QualityWithinHalfOfWeightedSum ==
  TestReportWritten =>
    LET summary == TestReportFile.content.summary
        quality == TestReportFile.content.quality
    IN /\ Inputs(summary) \subseteq 0..100
       /\ 100 * quality - WeightedSum(summary) \in -50..50
       /\ WeightedSum(summary) % 100 # 50 =>
            quality = (WeightedSum(summary) + 50) \div 100
       /\ quality \in 0..100
       /\ Inputs(summary) = {0} => quality = 0
       /\ Inputs(summary) = {100} => quality = 100
       /\ quality = 100 => WeightedSum(summary) >= 9950
\* no test passes, coverage 0 overall, 1 percent of the branches, 83 percent
\* of the functions: the weighted sum is 850 and the report scores 8
C28_Witness ==
  /\ TestReportWritten
  /\ WeightedSum(TestReportFile.content.summary) = 850
  /\ TestReportFile.content.quality = 8
\* every test passes, coverage 100 but for 95 percent of the functions: the
\* report scores 100
C28_WitnessFull ==
  /\ TestReportWritten
  /\ TestReportFile.content.summary.functionsCoverage = 95
  /\ TestReportFile.content.quality = 100

(* ---------------------------------------------------------------------- *)
(* The generated test files                                                 *)
(* ---------------------------------------------------------------------- *)
\* the run went through its loop and logged its completion
GenerationComplete ==
  /\ script = "generate" /\ pc = "done"
  /\ console # <<>>
  /\ console[Len(console)] = <<"log", "AI Test Generation Complete!">>
\* C29: after a complete run of the test generator every discovered source
\* file has a generated test file of its own: distinct discovered files have
\* distinct test paths and the file at the test path holds the tests for
\* that source file
C29_OneTestFilePerSourceFile ==
  GenerationComplete =>
    /\ \A i \in 1..Len(files) : \A j \in 1..Len(files) :
         i # j => testPath(files[i]) # testPath(files[j])
    /\ \A i \in 1..Len(files) :
         /\ testPath(files[i]) \in DOMAIN outputs
         /\ outputs[testPath(files[i])] = Written(generateTestContent(files[i]))
====
